---- MODULE Spec2Model ----
(***************************************************************************)
(* Ingestion-and-extraction pipeline of the expense tracker backend.       *)
(*                                                                         *)
(* The module holds one set of variables (the three collections User,      *)
(* Email, Transaction, the wall clock and the in-flight requests) and      *)
(* several specifications over them:                                       *)
(*                                                                         *)
(*   Spec        POST /sync and syncEmails (routes/emails.js); the list    *)
(*               returned by gmailService.fetchEmails is an input drawn    *)
(*               from the messages of the user's mailbox.                  *)
(*   SpecFetch   the same handlers composed with GmailService.fetchEmails  *)
(*               and parseEmailBody as they are written.                   *)
(*   SpecProcess POST /process and processEmails over stored messages.     *)
(*   SpecPipeline SpecProcess plus the runs in which the extraction is the *)
(*               single record processEmails reads.                        *)
(*   SpecTx      the /transactions routes.                                 *)
(*   SpecClient  one call of classifyEmail or extractTransaction: the      *)
(*               checks before the loop, the retry loop and the parsing    *)
(*               of the response.                                          *)
(*   SpecAccess  the /transactions routes with few request bodies.         *)
(*   SpecOwner   runs of processEmails side by side with creates and edits *)
(*               on /transactions.                                         *)
(*   SpecBatch   the batch loops of batchClassify, batchExtract and        *)
(*               fetchEmails.                                              *)
(*   SpecBody    one call of parseEmailBody over a payload tree.           *)
(*   SpecRoute   the dispatch of an authenticated request by the emails    *)
(*               router.                                                   *)
(*                                                                         *)
(* Mongoose documents are copies: a handler works on the copy it loaded    *)
(* and save() writes the paths of the copy that were modified.             *)
(***************************************************************************)
EXTENDS Integers, Sequences, FiniteSets, TLC

\* ------------------------------------------------------------------ bounds
\* messages in a user's mailbox
MaxMsg == 2
\* POST /sync requests that arrive, numbered in the order of their arrival
MaxReq == 2

\* POST /process requests that arrive, numbered in the order of their arrival
MaxProc == 2
\* candidates in one extraction response
MaxCand == 2
\* Transactions the /transactions routes create
MaxTx == 2
\* the amounts of a request body lie in -MaxAmount..MaxAmount
MaxAmount == 1
\* a batch loop is handed at most MaxItems items
MaxItems == 11
\* a multipart payload has at most MaxParts parts
MaxParts == 2
\* the path of a request on the emails router has at most MaxSegs segments
MaxSegs == 2

Users == {1, 2}
Procs == 1..MaxProc
Slots == 1..MaxReq
\* provider-assigned message ids of the mailbox of user u
Mailbox(u) == { u * 10 + k : k \in 1..MaxMsg }

NoUser == [id |-> 0, syncInProgress |-> FALSE, lastSyncDate |-> 0,
           totalEmails |-> 0, transactionalEmails |-> 0]

VARIABLES
  dbUser,      \* User collection: id -> document (the sync cursor fields)
  emailStore,  \* Email collection, in insertion order
  now,         \* wall clock read by new Date()
  sPc,         \* per POST /sync request: position in the handler / syncEmails
  sUser,       \* per request: req.user, the document loaded by requireAuth
  sEmails,     \* per request: const emails of syncEmails
  sIdx,        \* per request: position of the for..of loop over emails
  sSaved,      \* per request: savedCount
  sListed,     \* per request: the messages listed by the provider, with the
               \* outcome of their detail fetch
  classificationUrl, \* process.env.CLASSIFICATION_SERVICE_URL is set
  extractionUrl,     \* process.env.EXTRACTION_SERVICE_URL is set
  txStore,     \* Transaction collection, in insertion order
  txNextId,    \* the _id the next created Transaction receives
  txResp,      \* the answer of the last /transactions request
  pPc,         \* per POST /process request: position in processEmails
  pUserId,     \* per request: req.user._id
  pEmails,     \* per request: the gmailIds of unprocessedEmails, in order
  pIdx,        \* per request: position of the for..of loop over emails
  pClass,      \* per request: const classification of the current message
  pExtraction, \* per request: const extraction of the current message
  pTx,         \* per request: the transactions saved for the current message
  cService,    \* the client a call is made on: classification or extraction
  cInput,      \* emailContent of the call
  cPc,         \* position of the call in classifyEmail / extractTransaction
  cAttempt,    \* attempt of the retry loop
  cCalls,      \* axios.post calls the call has issued
  cWaits,      \* delays of the setTimeout calls, in order
  cErrors,     \* error.message of the failed attempts, in order
  cResponse,   \* response.data of the attempt that succeeded
  cResult,     \* the value the call returned
  txReq,       \* the /transactions request answered last: method, user, id
  bKind,       \* the batch loop that runs: classify, extract or fetch
  bN,          \* number of items handed to the loop
  bPc,         \* position of the loop
  bI,          \* let i of the loop: index of the first item of the group
  bStatus,     \* per item: its promise is pending, running, fulfilled, rejected
  bPauses,     \* setTimeout pauses the loop has started
  bGroups,     \* sizes of the groups the loop has started, in order
  bResults,    \* const results / emails of the loop
  ebPayload,   \* payload handed to parseEmailBody
  ebPc,        \* position of parseEmailBody
  ebResult,    \* the object parseEmailBody returned
  rqMethod,    \* method of a request on the emails router
  rqPath,      \* its path below the mount point, as segments
  rqHandler    \* the route that handled it

cfgVars == <<classificationUrl, extractionUrl>>
syncVars == <<dbUser, emailStore, now, sPc, sUser, sEmails, sIdx, sSaved, sListed>>
txVars == <<txStore, txNextId, txResp, txReq>>
batchVars == <<bKind, bN, bPc, bI, bStatus, bPauses, bGroups, bResults>>
bodyVars == <<ebPayload, ebPc, ebResult>>
routeVars == <<rqMethod, rqPath, rqHandler>>
utilVars == <<batchVars, bodyVars, routeVars>>
callVars == <<cService, cInput, cPc, cAttempt, cCalls, cWaits, cErrors, cResponse, cResult>>
procVars == <<pPc, pUserId, pEmails, pIdx, pClass, pExtraction, pTx>>
vars == <<dbUser, emailStore, now, sPc, sUser, sEmails, sIdx, sSaved, sListed,
          classificationUrl, extractionUrl, txStore, txNextId, txResp,
          pPc, pUserId, pEmails, pIdx, pClass, pExtraction, pTx,
          cService, cInput, cPc, cAttempt, cCalls, cWaits, cErrors, cResponse, cResult,
          txReq, bKind, bN, bPc, bI, bStatus, bPauses, bGroups, bResults,
          ebPayload, ebPc, ebResult, rqMethod, rqPath, rqHandler>>

\* no classification / extraction held
NoClass == [isTransactional |-> FALSE, confidence |-> 0, error |-> "null"]
NoExtraction == [kind |-> "none", results |-> <<>>]

\* ------------------------------------------------------------ helpers
RECURSIVE SetToSeq(_)
\* the elements of a finite set of integers in ascending order
SetToSeq(S) ==
  IF S = {} THEN <<>>
  ELSE LET m == CHOOSE x \in S : \A y \in S : x <= y
       IN <<m>> \o SetToSeq(S \ {m})

\* ------------------------------------------------------------ User model
\* userSchema.methods.updateSyncStatus, without the save
updateSyncStatus(doc, inProgress, t) ==
  [doc EXCEPT !.syncInProgress = inProgress,
              !.lastSyncDate = IF ~inProgress THEN t ELSE doc.lastSyncDate]

\* document.save(): $set of the paths whose value differs from the loaded one
saveUser(stored, loaded, doc) ==
  [stored EXCEPT
     !.syncInProgress = IF doc.syncInProgress # loaded.syncInProgress
                        THEN doc.syncInProgress ELSE stored.syncInProgress,
     !.lastSyncDate = IF doc.lastSyncDate # loaded.lastSyncDate
                      THEN doc.lastSyncDate ELSE stored.lastSyncDate,
     !.totalEmails = IF doc.totalEmails # loaded.totalEmails
                     THEN doc.totalEmails ELSE stored.totalEmails]

\* ------------------------------------------------------------ Email model
\* a Number path holding null or undefined; confidences are in hundredths
NullNum == -1

\* Email.findOne({ gmailId })
findOneByGmailId(store, gid) == \E i \in 1..Len(store) : store[i].gmailId = gid

\* new Email({ userId, gmailId: emailData.id, ...emailData })
newEmail(uid, emailData) ==
  [userId |-> uid, gmailId |-> emailData.id,
   isTransactional |-> IF emailData.isTransactional THEN "true" ELSE "false",
   classificationConfidence |-> NullNum, processed |-> FALSE,
   processingError |-> "null"]

insertEmail_noUniqueIndex(store, doc) == Append(store, doc)

\* email.save() of a new document: the unique index on gmailId rejects a
\* second document with the same id (the insert raises, nothing is stored)
insertEmail(store, doc) ==
  IF findOneByGmailId(store, doc.gmailId) THEN store ELSE Append(store, doc)

\* ------------------------------------------------- classification at fetch
\* ClassificationService.classifyEmail raises instead of returning: the URL
\* is not configured, or emailContent has no trim method (it is not a string)
classifyEmailRaises(urlSet, emailContent) ==
  \/ ~urlSet
  \/ emailContent.kind # "string"

\* parseEmailBody: classification starts false and becomes the value returned
\* by classifyEmail({ body, subject, sender }); an exception leaves it false.
\* The returned value is an object, which is truthy.
parseEmailBodyIsTransactional(urlSet) ==
  IF classifyEmailRaises(urlSet, [kind |-> "object"]) THEN FALSE ELSE TRUE

\* GmailService.fetchEmails, the forEach over batchResults: a message is kept
\* when its detail fetch is fulfilled and its isTransactional is truthy
fetchEmailsKeep(result) == result.status = "fulfilled" /\ result.isTransactional

fetchEmails(listed) ==
  LET kept == SelectSeq(listed, fetchEmailsKeep)
  IN [i \in 1..Len(kept) |->
        [id |-> kept[i].id, isTransactional |-> kept[i].isTransactional]]

\* no client call is under observation
NoResponse == [shape |-> "none"]
NoResult == [kind |-> "none"]
NoCall ==
  /\ cService = "none"
  /\ cInput = <<>>
  /\ cPc = "idle"
  /\ cAttempt = 0
  /\ cCalls = 0
  /\ cWaits = <<>>
  /\ cErrors = <<>>
  /\ cResponse = NoResponse
  /\ cResult = NoResult

\* no /transactions request has been answered
NoRequest == [method |-> "none", user |-> 0, id |-> 0]

\* no batch loop, no parseEmailBody call and no router dispatch is under
\* observation
NoBatch ==
  /\ bKind = "none" /\ bN = 0 /\ bPc = "idle" /\ bI = 0
  /\ bStatus = <<>> /\ bPauses = 0 /\ bGroups = <<>> /\ bResults = <<>>
NoBody ==
  /\ ebPayload = [kind |-> "none"] /\ ebPc = "idle" /\ ebResult = [kind |-> "none"]
NoRoute ==
  /\ rqMethod = "none" /\ rqPath = <<>> /\ rqHandler = "none"
NoUtil == NoBatch /\ NoBody /\ NoRoute

\* ------------------------------------------------------------------ Init
Init ==
  /\ dbUser = [u \in Users |-> [NoUser EXCEPT !.id = u]]
  /\ emailStore = <<>>
  /\ now = 0
  /\ sPc = [r \in Slots |-> "idle"]
  /\ sUser = [r \in Slots |-> NoUser]
  /\ sEmails = [r \in Slots |-> <<>>]
  /\ sIdx = [r \in Slots |-> 1]
  /\ sSaved = [r \in Slots |-> 0]
  /\ sListed = [r \in Slots |-> <<>>]
  /\ classificationUrl = TRUE
  /\ extractionUrl = TRUE
  /\ txStore = <<>>
  /\ txNextId = 1
  /\ txResp = "none"
  /\ txReq = NoRequest
  /\ NoUtil
  /\ NoCall
  /\ pPc = [p \in Procs |-> "idle"]
  /\ pUserId = [p \in Procs |-> 0]
  /\ pEmails = [p \in Procs |-> <<>>]
  /\ pIdx = [p \in Procs |-> 1]
  /\ pClass = [p \in Procs |-> NoClass]
  /\ pExtraction = [p \in Procs |-> NoExtraction]
  /\ pTx = [p \in Procs |-> <<>>]

\* --------------------------------------------------------- POST /sync
\* requireAuth: req.user = await User.findById(req.session.userId)
SyncLoad(r) ==
  /\ sPc[r] = "idle"
  /\ IF r = 1 THEN TRUE ELSE sPc[r - 1] # "idle"
  /\ \E u \in Users : sUser' = [sUser EXCEPT ![r] = dbUser[u]]
  /\ now' = now + 1
  /\ sPc' = [sPc EXCEPT ![r] = "loaded"]
  /\ UNCHANGED <<dbUser, emailStore, sEmails, sIdx, sSaved, sListed, cfgVars, utilVars, callVars, txVars, procVars>>

SyncReject_queued(r) ==
  /\ sPc[r] = "loaded"
  /\ sUser[r].syncInProgress
  /\ sPc' = [sPc EXCEPT ![r] = "started"]
  /\ UNCHANGED <<dbUser, emailStore, now, sUser, sEmails, sIdx, sSaved, sListed, cfgVars, utilVars, callVars, txVars, procVars>>

\* checkSyncPermission: 423 SYNC_IN_PROGRESS when the loaded flag is set
SyncReject(r) ==
  /\ sPc[r] = "loaded"
  /\ sUser[r].syncInProgress
  /\ sPc' = [sPc EXCEPT ![r] = "rejected"]
  /\ UNCHANGED <<dbUser, emailStore, now, sUser, sEmails, sIdx, sSaved, sListed, cfgVars, utilVars, callVars, txVars, procVars>>

\* checkSyncPermission passes; await user.updateSyncStatus(true); syncEmails
\* is called and runs up to its first await
SyncStart(r) ==
  /\ sPc[r] = "loaded"
  /\ ~sUser[r].syncInProgress
  /\ LET doc == updateSyncStatus(sUser[r], TRUE, now)
     IN /\ dbUser' = [dbUser EXCEPT ![doc.id] = saveUser(@, sUser[r], doc)]
        /\ sUser' = [sUser EXCEPT ![r] = doc]
  /\ sPc' = [sPc EXCEPT ![r] = "started"]
  /\ UNCHANGED <<emailStore, now, sEmails, sIdx, sSaved, sListed, cfgVars, utilVars, callVars, txVars, procVars>>

\* position after the loop body of syncEmails ran for emails[idx]
AfterItem(r, emails, idx) == IF idx >= Len(emails) THEN "finish" ELSE "find"

\* const emails = await gmailService.fetchEmails(...): the returned list, one
\* entry for each message of a subset of the user's mailbox
SyncFetch(r) ==
  /\ sPc[r] = "started"
  /\ \E S \in SUBSET Mailbox(sUser[r].id) :
       LET ids == SetToSeq(S)
           emails == [i \in 1..Len(ids) |-> [id |-> ids[i], isTransactional |-> TRUE]]
       IN /\ sEmails' = [sEmails EXCEPT ![r] = emails]
          /\ sPc' = [sPc EXCEPT ![r] = AfterItem(r, emails, 0)]
  /\ sIdx' = [sIdx EXCEPT ![r] = 1]
  /\ sSaved' = [sSaved EXCEPT ![r] = 0]
  /\ UNCHANGED <<dbUser, emailStore, now, sUser, sListed, cfgVars, utilVars, callVars, txVars, procVars>>

\* gmailService.fetchEmails raises (authentication or the list call failed)
SyncFetchFail(r) ==
  /\ sPc[r] = "started"
  /\ sPc' = [sPc EXCEPT ![r] = "failed"]
  /\ UNCHANGED <<dbUser, emailStore, now, sUser, sEmails, sIdx, sSaved, sListed, cfgVars, utilVars, callVars, txVars, procVars>>

\* const existingEmail = await Email.findOne({ gmailId: emailData.id })
SyncFindOne(r) ==
  /\ sPc[r] = "find"
  /\ IF findOneByGmailId(emailStore, sEmails[r][sIdx[r]].id)
     THEN /\ sPc' = [sPc EXCEPT ![r] = AfterItem(r, sEmails[r], sIdx[r])]
          /\ sIdx' = [sIdx EXCEPT ![r] = @ + 1]
     ELSE /\ sPc' = [sPc EXCEPT ![r] = "save"]
          /\ sIdx' = sIdx
  /\ UNCHANGED <<dbUser, emailStore, now, sUser, sEmails, sSaved, sListed, cfgVars, utilVars, callVars, txVars, procVars>>

\* await email.save(); savedCount++ -- a rejected insert skips the increment
\* (catch (emailError) logs it)
SyncSave(r) ==
  /\ sPc[r] = "save"
  /\ LET doc == newEmail(sUser[r].id, sEmails[r][sIdx[r]])
         store == insertEmail(emailStore, doc)
     IN /\ emailStore' = store
        /\ sSaved' = [sSaved EXCEPT ![r] = IF store # emailStore THEN @ + 1 ELSE @]
  /\ sPc' = [sPc EXCEPT ![r] = AfterItem(r, sEmails[r], sIdx[r])]
  /\ sIdx' = [sIdx EXCEPT ![r] = @ + 1]
  /\ UNCHANGED <<dbUser, now, sUser, sEmails, sListed, cfgVars, utilVars, callVars, txVars, procVars>>

\* user.totalEmails += savedCount; await user.updateSyncStatus(false)
syncEmailsFinish(user, savedCount, t) ==
  updateSyncStatus([user EXCEPT !.totalEmails = @ + savedCount], FALSE, t)

SyncFinish(r) ==
  /\ sPc[r] = "finish"
  /\ LET doc == syncEmailsFinish(sUser[r], sSaved[r], now)
     IN /\ dbUser' = [dbUser EXCEPT ![doc.id] = saveUser(@, sUser[r], doc)]
        /\ sUser' = [sUser EXCEPT ![r] = doc]
  /\ sPc' = [sPc EXCEPT ![r] = "completed"]
  /\ UNCHANGED <<emailStore, now, sEmails, sIdx, sSaved, sListed, cfgVars, utilVars, callVars, txVars, procVars>>

syncEmailsCatch_flagKept(user, t) == [user EXCEPT !.lastSyncDate = t]

\* catch (error) of syncEmails: await user.updateSyncStatus(false); throw
syncEmailsCatch(user, t) == updateSyncStatus(user, FALSE, t)

SyncCatch(r) ==
  /\ sPc[r] = "failed"
  /\ LET doc == syncEmailsCatch(sUser[r], now)
     IN /\ dbUser' = [dbUser EXCEPT ![doc.id] = saveUser(@, sUser[r], doc)]
        /\ sUser' = [sUser EXCEPT ![r] = doc]
  /\ sPc' = [sPc EXCEPT ![r] = "rethrown"]
  /\ UNCHANGED <<emailStore, now, sEmails, sIdx, sSaved, sListed, cfgVars, utilVars, callVars, txVars, procVars>>

\* the .catch of the route: user.updateSyncStatus(false) once more
SyncRouteCatch(r) ==
  /\ sPc[r] = "rethrown"
  /\ LET doc == updateSyncStatus(sUser[r], FALSE, now)
     IN /\ dbUser' = [dbUser EXCEPT ![doc.id] = saveUser(@, sUser[r], doc)]
        /\ sUser' = [sUser EXCEPT ![r] = doc]
  /\ sPc' = [sPc EXCEPT ![r] = "errored"]
  /\ UNCHANGED <<emailStore, now, sEmails, sIdx, sSaved, sListed, cfgVars, utilVars, callVars, txVars, procVars>>

Next ==
  \E r \in Slots :
    \/ SyncLoad(r)
    \/ SyncReject(r)
    \/ SyncStart(r)
    \/ SyncFetch(r)
    \/ SyncFetchFail(r)
    \/ SyncFindOne(r)
    \/ SyncSave(r)
    \/ SyncFinish(r)
    \/ SyncCatch(r)
    \/ SyncRouteCatch(r)

Spec == Init /\ [][Next]_vars

\* ----------------------------------------------- sync orchestrator claims
\* positions at which a run of syncEmails of the request is active
SyncActive == {"started", "find", "save", "finish", "failed"}
ActiveSyncs(u) == { r \in Slots : sPc[r] \in SyncActive /\ sUser[r].id = u }
StoredOf(u) == { i \in 1..Len(emailStore) : emailStore[i].userId = u }

\* C1: for every user at most one run of syncEmails is active at any time
C1_AtMostOneActiveSync == \A u \in Users : Cardinality(ActiveSyncs(u)) <= 1

\* C13: a POST /sync request that found the flag set can only be rejected;
\* the rejection leaves the stored users and messages as they are, and a
\* rejected request never starts a sync afterwards
C13_RejectedWhenFlagSet ==
  [][\A r \in Slots :
       /\ (sPc[r] = "loaded" /\ sUser[r].syncInProgress /\ sPc'[r] # sPc[r]) =>
            (sPc'[r] = "rejected" /\ dbUser' = dbUser /\ emailStore' = emailStore)
       /\ sPc[r] = "rejected" => sPc'[r] = "rejected"]_vars

\* a request was rejected while a sync of the user ran, and that sync has
\* completed since
C13_Witness ==
  \E r, q \in Slots :
    /\ sPc[r] = "rejected" /\ sPc[q] = "completed"
    /\ sUser[r].id = sUser[q].id
    /\ dbUser[sUser[r].id].totalEmails > 0

\* C2: when no sync of a user is running, the stored syncInProgress flag of
\* the user is false (also after a sync that threw)
C2_FlagClearedAfterSync ==
  \A u \in Users : ActiveSyncs(u) = {} => ~dbUser[u].syncInProgress

C2_Witness ==
  \E r \in Slots : sPc[r] = "errored" /\ ActiveSyncs(sUser[r].id) = {}
                    /\ ~dbUser[sUser[r].id].syncInProgress

\* C9: a sync that fails leaves the stored lastSyncDate unchanged
C9_FailedSyncKeepsLastSyncDate ==
  [][\A r \in Slots :
       (sPc[r] \in {"failed", "rethrown"} /\ sPc'[r] # sPc[r])
         => dbUser'[sUser[r].id].lastSyncDate = dbUser[sUser[r].id].lastSyncDate]_vars

\* C10: once no sync of a user is running, the user's totalEmails equals the
\* number of messages stored for the user
C10_TotalEmailsMatchesStore ==
  \A u \in Users :
    ActiveSyncs(u) = {} => dbUser[u].totalEmails = Cardinality(StoredOf(u))

UniqueGmailIds ==
  \A i, j \in 1..Len(emailStore) :
    i # j => emailStore[i].gmailId # emailStore[j].gmailId

\* a step keeps every stored message as it is and adds at most one message,
\* whose gmailId was not stored before
StoreOnlyGainsNewIds ==
  /\ \A i \in 1..Len(emailStore) :
       i <= Len(emailStore') /\ emailStore'[i] = emailStore[i]
  /\ Len(emailStore') > Len(emailStore) =>
       /\ Len(emailStore') = Len(emailStore) + 1
       /\ ~findOneByGmailId(emailStore, emailStore'[Len(emailStore')].gmailId)

\* C6: a sync never adds a message whose gmailId is already stored and never
\* changes a stored message, and no two stored messages share a gmailId
C6_SyncIdempotent == []UniqueGmailIds /\ [][StoreOnlyGainsNewIds]_vars

\* a run over a fetched set that was stored before completed, adding nothing
C6_Witness ==
  \E r \in Slots :
    /\ sPc[r] = "completed" /\ Len(sEmails[r]) = MaxMsg /\ sSaved[r] = 0
    /\ \A i \in 1..Len(sEmails[r]) : findOneByGmailId(emailStore, sEmails[r][i].id)

\* ------------------------------------- sync composed with the mail fetcher
InitFetch ==
  /\ dbUser = [u \in Users |-> [NoUser EXCEPT !.id = u]]
  /\ emailStore = <<>>
  /\ now = 0
  /\ sPc = [r \in Slots |-> "idle"]
  /\ sUser = [r \in Slots |-> NoUser]
  /\ sEmails = [r \in Slots |-> <<>>]
  /\ sIdx = [r \in Slots |-> 1]
  /\ sSaved = [r \in Slots |-> 0]
  /\ sListed = [r \in Slots |-> <<>>]
  /\ classificationUrl = TRUE
  /\ extractionUrl = TRUE
  /\ txStore = <<>>
  /\ txNextId = 1
  /\ txResp = "none"
  /\ txReq = NoRequest
  /\ NoUtil
  /\ NoCall
  /\ pPc = [p \in Procs |-> "idle"]
  /\ pUserId = [p \in Procs |-> 0]
  /\ pEmails = [p \in Procs |-> <<>>]
  /\ pIdx = [p \in Procs |-> 1]
  /\ pClass = [p \in Procs |-> NoClass]
  /\ pExtraction = [p \in Procs |-> NoExtraction]
  /\ pTx = [p \in Procs |-> <<>>]

\* fetchEmailDetails(message.id) for one listed message: it rejects, or it is
\* fulfilled with the message and the isTransactional of parseEmailBody
fetchEmailDetails(id, rejects, urlSet) ==
  IF rejects
  THEN [id |-> id, status |-> "rejected", isTransactional |-> FALSE]
  ELSE [id |-> id, status |-> "fulfilled",
        isTransactional |-> parseEmailBodyIsTransactional(urlSet)]

\* const emails = await gmailService.fetchEmails(...), with fetchEmails of
\* services/gmailServices.js: the provider lists the messages S of the
\* mailbox, the detail fetch of those in F rejects
SyncFetchDetails(r) ==
  /\ sPc[r] = "started"
  /\ \E S \in SUBSET Mailbox(sUser[r].id) : \E F \in SUBSET S :
       LET ids == SetToSeq(S)
           listed == [i \in 1..Len(ids) |->
                        fetchEmailDetails(ids[i], ids[i] \in F, classificationUrl)]
           emails == fetchEmails(listed)
       IN /\ sListed' = [sListed EXCEPT ![r] = listed]
          /\ sEmails' = [sEmails EXCEPT ![r] = emails]
          /\ sPc' = [sPc EXCEPT ![r] = AfterItem(r, emails, 0)]
  /\ sIdx' = [sIdx EXCEPT ![r] = 1]
  /\ sSaved' = [sSaved EXCEPT ![r] = 0]
  /\ UNCHANGED <<dbUser, emailStore, now, sUser, cfgVars, utilVars, callVars, txVars, procVars>>

\* fetchEmails returns no message (see C3), so the loop of syncEmails has no
\* iteration in this composition
NextFetch ==
  \E r \in Slots :
    \/ SyncLoad(r)
    \/ SyncReject(r)
    \/ SyncStart(r)
    \/ SyncFetchDetails(r)
    \/ SyncFetchFail(r)
    \/ SyncFinish(r)
    \/ SyncCatch(r)
    \/ SyncRouteCatch(r)

SpecFetch == InitFetch /\ [][NextFetch]_vars

\* C3: when a sync completes, every message the provider listed whose detail
\* fetch succeeded is stored, whatever its classification
C3_EveryFetchedMessageStored ==
  \A r \in Slots :
    sPc[r] = "completed" =>
      \A i \in 1..Len(sListed[r]) :
        sListed[r][i].status = "fulfilled"
          => findOneByGmailId(emailStore, sListed[r][i].id)

\* ------------------------------------------------------------- processing
\* the result objects classifyEmail returns to processEmails: a recognised
\* response (the score 1.5 of a response is returned as it came), and the
\* degraded result after the last failed attempt
ClassResults ==
  { [isTransactional |-> TRUE, confidence |-> 90, error |-> "null"],
    [isTransactional |-> TRUE, confidence |-> 150, error |-> "null"],
    [isTransactional |-> FALSE, confidence |-> 30, error |-> "null"],
    [isTransactional |-> FALSE, confidence |-> 0, error |-> "Network Error"] }

\* candidate i of an extraction response, as parseExtractionResponse keeps it
Candidate(i) ==
  [amount |-> 5 * i, type |-> IF i % 2 = 1 THEN "purchase" ELSE "gift"]

\* the values extractTransaction returns: the error sentinel (amount: null),
\* null (top-level success false), or the array results
ExtractionResults ==
  { [kind |-> "sentinel", results |-> <<>>],
    [kind |-> "null", results |-> <<>>] }
  \cup { [kind |-> "list", results |-> [i \in 1..k |-> Candidate(i)]] : k \in 0..MaxCand }

\* emailSchema.statics.findUnprocessed: the user's unprocessed messages, most
\* recent first (message ids grow with the date), at most limit of them
RECURSIVE Descending(_)
Descending(S) ==
  IF S = {} THEN <<>>
  ELSE LET m == CHOOSE x \in S : \A y \in S : x >= y
       IN <<m>> \o Descending(S \ {m})

findUnprocessed(store, userId, limit) ==
  LET ids == { store[i].gmailId : i \in { j \in 1..Len(store) :
                 store[j].userId = userId /\ ~store[j].processed } }
      sorted == Descending(ids)
  IN SubSeq(sorted, 1, IF limit < Len(sorted) THEN limit ELSE Len(sorted))

emailByGmailId(store, gid) ==
  store[CHOOSE i \in 1..Len(store) : store[i].gmailId = gid]

\* emailSchema.methods.markProcessed, without the save
markProcessed(doc, isTransactional, confidence, error) ==
  [doc EXCEPT !.processed = TRUE,
              !.isTransactional = isTransactional,
              !.classificationConfidence = confidence,
              !.processingError = error]

\* schema validation of save(): classificationConfidence has min 0, max 1
\* (confidences are held in hundredths)
emailValidates(doc) ==
  doc.classificationConfidence = NullNum
    \/ (doc.classificationConfidence >= 0 /\ doc.classificationConfidence <= 100)

\* save() of a loaded message: the stored document with that id is updated
updateEmail(store, doc) ==
  [i \in 1..Len(store) |-> IF store[i].gmailId = doc.gmailId THEN doc ELSE store[i]]

\* transactionSchema.transactionType enum
TransactionTypes ==
  {"bill_payment", "purchase", "subscription", "refund", "transfer",
   "entertainment", "fuel", "other"}

\* extraction.amount: the sentinel holds amount: null, an array has no amount
amountProperty(extraction) ==
  IF extraction.kind = "sentinel" THEN "null" ELSE "undefined"

typeProperty(extraction) ==
  IF extraction.kind = "sentinel" THEN "null" ELSE "undefined"

\* processEmails, if (extraction && extraction.amount) { new Transaction ...
\* save }: the transactions saved for a message
processEmailsTransactions(extraction, gid, userId, id) ==
  IF extraction.kind # "null" /\ amountProperty(extraction) \notin {"null", "undefined"}
  THEN LET t == [id |-> id, emailId |-> gid, userId |-> userId,
                 amount |-> amountProperty(extraction),
                 transactionType |->
                   IF typeProperty(extraction) \in {"null", "undefined"}
                   THEN "other" ELSE typeProperty(extraction)]
       IN IF t.transactionType \in TransactionTypes THEN <<t>> ELSE <<>>
  ELSE <<>>

\* the messages earlier syncs have stored: the mailbox of user 1 and the
\* first message of every other user
StoredAtStart ==
  UNION { IF u = 1 THEN Mailbox(u) ELSE { u * 10 + 1 } : u \in Users }

InitProcess ==
  /\ dbUser = [u \in Users |->
       [NoUser EXCEPT !.id = u, !.lastSyncDate = 1,
                      !.totalEmails = Cardinality(StoredAtStart \cap Mailbox(u))]]
  /\ emailStore =
       LET ids == SetToSeq(StoredAtStart)
       IN [i \in 1..Len(ids) |->
             newEmail(ids[i] \div 10, [id |-> ids[i], isTransactional |-> TRUE])]
  /\ now = 1
  /\ sPc = [r \in Slots |-> "idle"]
  /\ sUser = [r \in Slots |-> NoUser]
  /\ sEmails = [r \in Slots |-> <<>>]
  /\ sIdx = [r \in Slots |-> 1]
  /\ sSaved = [r \in Slots |-> 0]
  /\ sListed = [r \in Slots |-> <<>>]
  /\ classificationUrl \in BOOLEAN
  /\ extractionUrl \in BOOLEAN
  /\ txStore = <<>>
  /\ txNextId = 1
  /\ txResp = "none"
  /\ txReq = NoRequest
  /\ NoUtil
  /\ NoCall
  /\ pPc = [p \in Procs |-> "idle"]
  /\ pUserId = [p \in Procs |-> 0]
  /\ pEmails = [p \in Procs |-> <<>>]
  /\ pIdx = [p \in Procs |-> 1]
  /\ pClass = [p \in Procs |-> NoClass]
  /\ pExtraction = [p \in Procs |-> NoExtraction]
  /\ pTx = [p \in Procs |-> <<>>]

\* a variant of POST /process that processes the unprocessed messages of any
\* user under the id of the requesting user
ProcRequest_anyMailbox(p) ==
  /\ pPc[p] = "idle"
  /\ IF p = 1 THEN TRUE ELSE pPc[p - 1] # "idle"
  /\ \E u \in Users : \E v \in Users : \E batchSize \in 1..MaxMsg :
       LET list == findUnprocessed(emailStore, v, batchSize)
       IN /\ pUserId' = [pUserId EXCEPT ![p] = u]
          /\ pEmails' = [pEmails EXCEPT ![p] = list]
          /\ pPc' = [pPc EXCEPT ![p] = IF list = <<>> THEN "none" ELSE "classify"]
  /\ UNCHANGED <<syncVars, cfgVars, utilVars, callVars, txVars, pIdx, pClass, pExtraction, pTx>>

\* POST /process: findUnprocessed(req.user._id, batchSize); an empty list is
\* answered at once, otherwise processEmails starts in the background
ProcRequest(p) ==
  /\ pPc[p] = "idle"
  /\ IF p = 1 THEN TRUE ELSE pPc[p - 1] # "idle"
  /\ \E u \in Users : \E batchSize \in 1..MaxMsg :
       LET list == findUnprocessed(emailStore, u, batchSize)
       IN /\ pUserId' = [pUserId EXCEPT ![p] = u]
          /\ pEmails' = [pEmails EXCEPT ![p] = list]
          /\ pPc' = [pPc EXCEPT ![p] = IF list = <<>> THEN "none" ELSE "classify"]
  /\ UNCHANGED <<syncVars, cfgVars, utilVars, callVars, txVars, pIdx, pClass, pExtraction, pTx>>

\* position after the loop body of processEmails ran for emails[idx]
AfterEmail(emails, idx) == IF idx >= Len(emails) THEN "done" ELSE "classify"

\* catch (error) of processEmails: markProcessed(null, null, error.message)
processEmailsCatch(doc, message) == markProcessed(doc, "null", NullNum, message)

\* classifyEmail raises (the URL is not configured): the catch marks the message
ProcClassifyRaises(p) ==
  /\ pPc[p] = "classify"
  /\ classifyEmailRaises(classificationUrl, [kind |-> "string"])
  /\ LET doc == emailByGmailId(emailStore, pEmails[p][pIdx[p]])
     IN emailStore' = updateEmail(emailStore,
                        processEmailsCatch(doc, "Classification service URL not configured"))
  /\ pPc' = [pPc EXCEPT ![p] = AfterEmail(pEmails[p], pIdx[p])]
  /\ pIdx' = [pIdx EXCEPT ![p] = @ + 1]
  /\ pClass' = [pClass EXCEPT ![p] = NoClass]
  /\ UNCHANGED <<dbUser, now, sPc, sUser, sEmails, sIdx, sSaved, sListed, cfgVars, utilVars, callVars,
                 txVars, pUserId, pEmails, pExtraction, pTx>>

\* const classification = await classifyEmail(...); await email.markProcessed(
\* classification.isTransactional, classification.confidence); a validation
\* error of that save is caught by catch (error), which marks the message
ProcClassify(p) ==
  /\ pPc[p] = "classify"
  /\ ~classifyEmailRaises(classificationUrl, [kind |-> "string"])
  /\ \E c \in ClassResults :
       LET doc == emailByGmailId(emailStore, pEmails[p][pIdx[p]])
           marked == markProcessed(doc, IF c.isTransactional THEN "true" ELSE "false",
                                   c.confidence, "null")
       IN IF emailValidates(marked)
          THEN /\ emailStore' = updateEmail(emailStore, marked)
               /\ IF c.isTransactional
                  THEN /\ pPc' = [pPc EXCEPT ![p] = "extract"]
                       /\ pIdx' = pIdx
                       /\ pClass' = [pClass EXCEPT ![p] = c]
                  ELSE /\ pPc' = [pPc EXCEPT ![p] = AfterEmail(pEmails[p], pIdx[p])]
                       /\ pIdx' = [pIdx EXCEPT ![p] = @ + 1]
                       /\ pClass' = [pClass EXCEPT ![p] = c]
          ELSE /\ emailStore' = updateEmail(emailStore,
                                   processEmailsCatch(doc, "Email validation failed"))
               /\ pClass' = [pClass EXCEPT ![p] = c]
               /\ pPc' = [pPc EXCEPT ![p] = AfterEmail(pEmails[p], pIdx[p])]
               /\ pIdx' = [pIdx EXCEPT ![p] = @ + 1]
  /\ UNCHANGED <<dbUser, now, sPc, sUser, sEmails, sIdx, sSaved, sListed, cfgVars, utilVars, callVars,
                 txVars, pUserId, pEmails, pExtraction, pTx>>

\* The store rejects the save of markProcessed (the connection dropped): catch
\* (error) calls markProcessed again, outside any try. When that save is
\* rejected too the error leaves the loop and processEmails rejects; the route
\* logs it.
ProcSaveRejected(p) ==
  /\ pPc[p] = "classify"
  /\ \E again \in BOOLEAN :
       LET doc == emailByGmailId(emailStore, pEmails[p][pIdx[p]])
       IN IF again
          THEN /\ pPc' = [pPc EXCEPT ![p] = "rejected"]
               /\ UNCHANGED <<emailStore, pIdx>>
          ELSE /\ emailStore' = updateEmail(emailStore,
                                   processEmailsCatch(doc, "connection closed"))
               /\ pPc' = [pPc EXCEPT ![p] = AfterEmail(pEmails[p], pIdx[p])]
               /\ pIdx' = [pIdx EXCEPT ![p] = @ + 1]
  /\ pClass' = [pClass EXCEPT ![p] = NoClass]
  /\ UNCHANGED <<dbUser, now, sPc, sUser, sEmails, sIdx, sSaved, sListed, cfgVars, utilVars, callVars,
                 txVars, pUserId, pEmails, pExtraction, pTx>>

\* extractTransaction raises (the URL is not configured): catch
\* (extractionError) logs it
ProcExtractRaises(p) ==
  /\ pPc[p] = "extract"
  /\ ~extractionUrl
  /\ pPc' = [pPc EXCEPT ![p] = "extracted"]
  /\ pClass' = [pClass EXCEPT ![p] = NoClass]
  /\ UNCHANGED <<syncVars, cfgVars, utilVars, callVars, txVars, pUserId, pEmails, pIdx, pExtraction, pTx>>

\* const extraction = await extractTransaction(...); the transaction is saved
\* when extraction.amount is truthy. User is not defined in routes/emails.js,
\* so the counter update after the save raises into catch (extractionError).
ProcExtract(p) ==
  /\ pPc[p] = "extract"
  /\ extractionUrl
  /\ \E e \in ExtractionResults :
       LET saved == processEmailsTransactions(e, pEmails[p][pIdx[p]], pUserId[p], txNextId)
       IN /\ txStore' = txStore \o saved
          /\ txNextId' = txNextId + Len(saved)
          /\ pExtraction' = [pExtraction EXCEPT ![p] = e]
          /\ pTx' = [pTx EXCEPT ![p] = saved]
  /\ pPc' = [pPc EXCEPT ![p] = "extracted"]
  /\ pClass' = [pClass EXCEPT ![p] = NoClass]
  /\ UNCHANGED <<syncVars, cfgVars, utilVars, callVars, txResp, txReq, pUserId, pEmails, pIdx>>

\* the body of the loop is over for a transactional message: next message
ProcNextEmail(p) ==
  /\ pPc[p] = "extracted"
  /\ pPc' = [pPc EXCEPT ![p] = AfterEmail(pEmails[p], pIdx[p])]
  /\ pIdx' = [pIdx EXCEPT ![p] = @ + 1]
  /\ pExtraction' = [pExtraction EXCEPT ![p] = NoExtraction]
  /\ pTx' = [pTx EXCEPT ![p] = <<>>]
  /\ UNCHANGED <<syncVars, cfgVars, utilVars, callVars, txVars, pUserId, pEmails, pClass>>

NextProcess ==
  \E p \in Procs :
    \/ ProcRequest(p)
    \/ ProcClassifyRaises(p)
    \/ ProcClassify(p)
    \/ ProcSaveRejected(p)
    \/ ProcExtractRaises(p)
    \/ ProcExtract(p)
    \/ ProcNextEmail(p)

SpecProcess == InitProcess /\ [][NextProcess]_vars

\* C4: after the extraction of a transactional message returned k >= 1
\* candidates, the run has saved k Transactions for the message, the i-th
\* carrying the amount of candidate i
C4_TransactionPerCandidate ==
  \A p \in Procs :
    (pExtraction[p].kind = "list" /\ Len(pExtraction[p].results) >= 1) =>
      /\ Len(pTx[p]) = Len(pExtraction[p].results)
      /\ \A i \in 1..Len(pTx[p]) :
           /\ pTx[p][i].amount = pExtraction[p].results[i].amount
           /\ pTx[p][i].emailId = pEmails[p][pIdx[p]]
           /\ \E j \in 1..Len(txStore) : txStore[j] = pTx[p][i]

\* C5: when processEmails has finished, by returning or by rejecting, every
\* message of its list is stored with processed = true: no failure on one
\* message keeps the messages after it from being processed
C5_AllProcessedWhenDone ==
  \A p \in Procs :
    pPc[p] \in {"done", "rejected"} =>
      \A i \in 1..Len(pEmails[p]) : emailByGmailId(emailStore, pEmails[p][i]).processed

\* ------------------------------------------------- processing, record shape
\* processEmails reads its extraction as one record (extraction.amount,
\* extraction.type): SpecPipeline adds to SpecProcess the runs in which
\* extractTransaction resolves to such a record with a truthy amount.
RecordTypes == {"undefined", "purchase", "gift"}

\* routes/emails.js requires Email and Transaction and no User model
UserIsImported == FALSE

\* await User.findByIdAndUpdate(userId, {$inc: {transactionalEmails: 1}}):
\* the reference to User raises a ReferenceError, which catch
\* (extractionError) logs
findByIdAndUpdateInc(users, userId) ==
  IF UserIsImported
  THEN [users EXCEPT ![userId].transactionalEmails = @ + 1]
  ELSE users

ProcExtractRecord(p) ==
  /\ pPc[p] = "extract"
  /\ extractionUrl
  /\ \E amount \in 1..MaxAmount : \E type \in RecordTypes :
       LET t == [id |-> txNextId, emailId |-> pEmails[p][pIdx[p]],
                 userId |-> pUserId[p], amount |-> amount,
                 transactionType |-> IF type = "undefined" THEN "other" ELSE type]
           saved == IF t.transactionType \in TransactionTypes THEN <<t>> ELSE <<>>
       IN /\ txStore' = txStore \o saved
          /\ txNextId' = txNextId + Len(saved)
          /\ dbUser' = IF saved = <<>> THEN dbUser
                       ELSE findByIdAndUpdateInc(dbUser, pUserId[p])
          /\ pExtraction' = [pExtraction EXCEPT ![p] =
                               [kind |-> "record", results |-> <<[amount |-> amount, type |-> type]>>]]
          /\ pTx' = [pTx EXCEPT ![p] = saved]
  /\ pPc' = [pPc EXCEPT ![p] = "extracted"]
  /\ pClass' = [pClass EXCEPT ![p] = NoClass]
  /\ UNCHANGED <<emailStore, now, sPc, sUser, sEmails, sIdx, sSaved, sListed,
                 cfgVars, utilVars, callVars, txResp, txReq, pUserId, pEmails, pIdx>>

NextPipeline ==
  \/ NextProcess
  \/ \E p \in Procs : ProcExtractRecord(p)

SpecPipeline == InitProcess /\ [][NextPipeline]_vars

\* the Transactions of user u that processEmails saved (they reference a message)
PipelineTransactions(u) ==
  { i \in 1..Len(txStore) : txStore[i].userId = u /\ txStore[i].emailId # 0 }

C11_ClassificationErrorRecorded ==
  \A p \in Procs :
    /\ (pClass[p].error # "null" /\ pPc[p] \in {"classify", "done"}) =>
         LET doc == emailByGmailId(emailStore, pEmails[p][pIdx[p] - 1])
         IN doc.processed /\ doc.processingError = pClass[p].error
    /\ (~classificationUrl) =>
         \A i \in 1..Len(pEmails[p]) :
           (i < pIdx[p] /\ pPc[p] # "rejected") =>
             LET doc == emailByGmailId(emailStore, pEmails[p][i])
             IN doc.processed /\ doc.processingError # "null"

\* C7: a stored message that is processed stays processed and keeps its
\* classification fields
C7_ProcessedOnce ==
  [][\A i \in 1..Len(emailStore) :
       emailStore[i].processed => emailStore'[i] = emailStore[i]]_vars

\* ----------------------------------------------------------- transactions
\* req.body.amount: absent, or a number
AmountInputs ==
  { [defined |-> FALSE, value |-> 0] }
  \cup { [defined |-> TRUE, value |-> v] : v \in (0 - MaxAmount)..MaxAmount }

\* req.body.transactionType: absent, a member of the enum, or another string
TypeInputs == {"undefined", "purchase", "refund", "gift"}

\* if (amount): undefined and 0 are falsy
amountTruthy(amount) == amount.defined /\ amount.value # 0

\* Transaction.findById
findById(store, id) == { i \in 1..Len(store) : store[i].id = id }

\* validation of a Transaction: amount is required (any number passes, the
\* schema sets no minimum), transactionType is required and in the enum
transactionValidates(amount, type) ==
  amount.defined /\ type \in TransactionTypes

InitTx ==
  /\ dbUser = [u \in Users |-> [NoUser EXCEPT !.id = u]]
  /\ emailStore = <<>>
  /\ now = 1
  /\ sPc = [r \in Slots |-> "idle"]
  /\ sUser = [r \in Slots |-> NoUser]
  /\ sEmails = [r \in Slots |-> <<>>]
  /\ sIdx = [r \in Slots |-> 1]
  /\ sSaved = [r \in Slots |-> 0]
  /\ sListed = [r \in Slots |-> <<>>]
  /\ classificationUrl = TRUE
  /\ extractionUrl = TRUE
  /\ txStore = <<>>
  /\ txNextId = 1
  /\ txResp = "none"
  /\ txReq = NoRequest
  /\ NoUtil
  /\ NoCall
  /\ pPc = [p \in Procs |-> "idle"]
  /\ pUserId = [p \in Procs |-> 0]
  /\ pEmails = [p \in Procs |-> <<>>]
  /\ pIdx = [p \in Procs |-> 1]
  /\ pClass = [p \in Procs |-> NoClass]
  /\ pExtraction = [p \in Procs |-> NoExtraction]
  /\ pTx = [p \in Procs |-> <<>>]

\* POST /transactions: Transaction.create with the amount of the body as it
\* came; a validation error is answered with 500
TxPostWith(u, amounts, types) ==
  /\ txNextId <= MaxTx
  /\ txReq' = [method |-> "POST", user |-> u, id |-> 0]
  /\ \E amount \in amounts : \E type \in types :
       IF transactionValidates(amount, type)
       THEN /\ txStore' = Append(txStore,
                   [id |-> txNextId, emailId |-> 0, userId |-> u,
                    amount |-> amount.value, transactionType |-> type])
            /\ txNextId' = txNextId + 1
            /\ txResp' = "201"
       ELSE /\ txResp' = "500"
            /\ UNCHANGED <<txStore, txNextId>>
  /\ UNCHANGED <<syncVars, cfgVars, utilVars, callVars, procVars>>

\* POST /transactions with any body
TxPost(u) == TxPostWith(u, AmountInputs, TypeInputs)

\* PUT /transactions/:id: 404 when the id is unknown, 403 for another
\* user's transaction; the fields of the body that are truthy are assigned
\* and the document is saved
TxPutWith(u, amounts, types) ==
  /\ \E id \in 1..MaxTx : \E amount \in amounts : \E type \in types :
       LET found == findById(txStore, id)
       IN /\ txReq' = [method |-> "PUT", user |-> u, id |-> id]
          /\ IF found = {}
             THEN txResp' = "404" /\ UNCHANGED txStore
             ELSE LET i == CHOOSE j \in found : TRUE
                      transaction == txStore[i]
                      edited == [transaction EXCEPT
                                   !.amount = IF amountTruthy(amount)
                                              THEN amount.value ELSE @,
                                   !.transactionType = IF type # "undefined"
                                                       THEN type ELSE @]
                  IN IF transaction.userId # u
                     THEN txResp' = "403" /\ UNCHANGED txStore
                     ELSE IF edited.transactionType \in TransactionTypes
                          THEN /\ txStore' = [txStore EXCEPT ![i] = edited]
                               /\ txResp' = "200"
                          ELSE txResp' = "500" /\ UNCHANGED txStore
  /\ UNCHANGED <<syncVars, cfgVars, utilVars, callVars, txNextId, procVars>>

\* PUT /transactions/:id with any body
TxPut(u) == TxPutWith(u, AmountInputs, TypeInputs)

\* a variant of DELETE /transactions/:id without the owner check
TxDelete_noOwnerCheck(u) ==
  /\ \E id \in 1..MaxTx :
       LET found == findById(txStore, id)
       IN /\ txReq' = [method |-> "DELETE", user |-> u, id |-> id]
          /\ IF found = {}
             THEN txResp' = "unhandled" /\ UNCHANGED txStore
             ELSE LET i == CHOOSE j \in found : TRUE
                  IN /\ txStore' = SubSeq(txStore, 1, i - 1)
                                       \o SubSeq(txStore, i + 1, Len(txStore))
                     /\ txResp' = "200"
  /\ UNCHANGED <<syncVars, cfgVars, utilVars, callVars, txNextId, procVars>>

\* DELETE /transactions/:id: the owner check reads transaction.userId before
\* the try block, so an unknown id raises outside it and no answer is sent
TxDelete(u) ==
  /\ \E id \in 1..MaxTx :
       LET found == findById(txStore, id)
       IN /\ txReq' = [method |-> "DELETE", user |-> u, id |-> id]
          /\ IF found = {}
             THEN txResp' = "unhandled" /\ UNCHANGED txStore
             ELSE LET i == CHOOSE j \in found : TRUE
                  IN IF txStore[i].userId # u
                     THEN txResp' = "403" /\ UNCHANGED txStore
                     ELSE /\ txStore' = SubSeq(txStore, 1, i - 1)
                                           \o SubSeq(txStore, i + 1, Len(txStore))
                          /\ txResp' = "200"
  /\ UNCHANGED <<syncVars, cfgVars, utilVars, callVars, txNextId, procVars>>

NextTx ==
  \E u \in Users :
    \/ TxPost(u)
    \/ TxPut(u)
    \/ TxDelete(u)

SpecTx == InitTx /\ [][NextTx]_vars

\* C8: every stored Transaction has an amount greater than 0
C8_StoredAmountsPositive ==
  \A i \in 1..Len(txStore) : txStore[i].amount > 0

\* ------------------------------------------------- classification client
\* Strings whose text matters are held as sequences of characters, numbers
\* of the services in hundredths (92 is 0.92).
upperCase ==
  <<"A", "B", "C", "D", "E", "F", "G", "H", "I", "J", "K", "L", "M", "N", "O", "P", "Q", "R", "S", "T", "U", "V", "W", "X", "Y", "Z">>
lowerCase ==
  <<"a", "b", "c", "d", "e", "f", "g", "h", "i", "j", "k", "l", "m", "n", "o", "p", "q", "r", "s", "t", "u", "v", "w", "x", "y", "z">>

\* String.prototype.toLowerCase
toLowerCase(str) ==
  [i \in 1..Len(str) |->
     IF \E k \in 1..Len(upperCase) : upperCase[k] = str[i]
     THEN lowerCase[CHOOSE k \in 1..Len(upperCase) : upperCase[k] = str[i]]
     ELSE str[i]]

\* String.prototype.includes
includes(str, keyword) ==
  \E i \in 0..(Len(str) - Len(keyword)) : SubSeq(str, i + 1, i + Len(keyword)) = keyword

transactionalKeywords ==
  { <<"t", "r", "a", "n", "s", "a", "c", "t", "i", "o", "n", "a", "l">>,
    <<"t", "r", "a", "n", "s", "a", "c", "t", "i", "o", "n">>,
    <<"p", "a", "y", "m", "e", "n", "t">>,
    <<"r", "e", "c", "e", "i", "p", "t">>,
    <<"i", "n", "v", "o", "i", "c", "e">>,
    <<"b", "i", "l", "l">>,
    <<"p", "u", "r", "c", "h", "a", "s", "e">>,
    <<"o", "r", "d", "e", "r">>,
    <<"f", "i", "n", "a", "n", "c", "i", "a", "l">>,
    <<"m", "o", "n", "e", "y">>,
    <<"c", "h", "a", "r", "g", "e">>,
    <<"p", "a", "i", "d">>,
    <<"r", "e", "f", "u", "n", "d">>,
    <<"1">>,
    <<"t", "r", "u", "e">> }

\* isTransactionalLabel: false for a falsy label, otherwise whether the
\* lowercased label includes one of the keywords
isTransactionalLabel(label) ==
  IF label = <<>> THEN FALSE
  ELSE \E keyword \in transactionalKeywords : includes(toLowerCase(label), keyword)

\* an optional number of a response: absent, or a value
Absent == [defined |-> FALSE, value |-> 0]
Num(v) == [defined |-> TRUE, value |-> v]
\* truthiness of an optional number: absent and 0 are falsy
numTruthy(n) == n.defined /\ n.value # 0

\* the result objects of classifyEmail
classificationResult(isTransactional, confidence, error) ==
  [isTransactional |-> isTransactional, confidence |-> confidence, error |-> error]

\* confidence: responseData.confidence || responseData.score || 0.5
confidenceOrScore(responseData) ==
  IF numTruthy(responseData.confidence) THEN responseData.confidence.value
  ELSE IF numTruthy(responseData.score) THEN responseData.score.value
  ELSE 50

\* parseClassificationResponse. A null response raises a TypeError at
\* responseData.prediction, which the catch turns into "Response parsing failed".
parseClassificationResponse(responseData) ==
  IF /\ responseData.shape = "array" /\ responseData.len > 0
     /\ responseData.first.label # <<>> /\ responseData.first.score.defined
  THEN classificationResult(isTransactionalLabel(responseData.first.label),
                            responseData.first.score.value, "null")
  ELSE IF responseData.shape = "null"
  THEN classificationResult(FALSE, 0, "Response parsing failed")
  ELSE IF responseData.shape = "object" /\ responseData.prediction # <<>>
  THEN classificationResult(isTransactionalLabel(responseData.prediction),
                            confidenceOrScore(responseData), "null")
  ELSE IF responseData.shape = "object" /\ responseData.label # <<>>
  THEN classificationResult(isTransactionalLabel(responseData.label),
                            confidenceOrScore(responseData), "null")
  ELSE IF responseData.shape = "boolean"
  THEN classificationResult(responseData.bool, 50, "null")
  ELSE IF responseData.shape = "number"
  THEN classificationResult(responseData.num > 50,
                            IF responseData.num < 0 THEN 0 - responseData.num
                            ELSE responseData.num, "null")
  ELSE classificationResult(FALSE, 0, "Unknown response format")

\* ----------------------------------------------------- extraction client
digits == <<"0", "1", "2", "3", "4", "5", "6", "7", "8", "9">>
isDigit(c) == \E d \in 1..Len(digits) : digits[d] = c
digitValue(c) == (CHOOSE d \in 1..Len(digits) : digits[d] = c) - 1

\* the characters the replace of parseAmount removes: currency signs ("EUR",
\* "GBP", "JPY", "INR" stand for the signs of these currencies), commas, spaces
removedCharacters == {"$", "EUR", "GBP", "JPY", "INR", ",", " "}

\* value of a run of digits
RECURSIVE digitsValue(_)
digitsValue(run) ==
  IF run = <<>> THEN 0
  ELSE 10 * digitsValue(SubSeq(run, 1, Len(run) - 1)) + digitValue(run[Len(run)])

\* the longest run of digits of str that starts at position i
RECURSIVE digitRun(_, _)
digitRun(str, i) ==
  IF i > Len(str) THEN <<>>
  ELSE IF isDigit(str[i]) THEN <<str[i]>> \o digitRun(str, i + 1)
  ELSE <<>>

\* parseFloat of a match of /\d+\.?\d*/, in hundredths: the integer part and
\* the first two decimals
parseFloatHundredths(whole, decimals) ==
  LET padded == decimals \o <<"0", "0">>
  IN 100 * digitsValue(whole) + digitsValue(SubSeq(padded, 1, 2))

\* parseAmount: null for a falsy input, for a text without a digit and for
\* a number that is not greater than 0
parseAmount(amountStr) ==
  IF amountStr = <<>> THEN Absent
  ELSE LET cleaned == SelectSeq(amountStr, LAMBDA c : c \notin removedCharacters)
           starts == { i \in 1..Len(cleaned) : isDigit(cleaned[i]) }
       IN IF starts = {} THEN Absent
          ELSE LET i == CHOOSE k \in starts : \A j \in starts : k <= j
                   whole == digitRun(cleaned, i)
                   after == i + Len(whole)
                   decimals == IF after <= Len(cleaned) /\ cleaned[after] = "."
                               THEN digitRun(cleaned, after + 1) ELSE <<>>
                   amount == parseFloatHundredths(whole, decimals)
               IN IF amount > 0 THEN Num(amount) ELSE Absent

\* the values extractTransaction returns: the array of candidates, null, or
\* the error sentinel (amount: null, error)
extractionResult(kind, results, error) ==
  [kind |-> kind, results |-> results, error |-> error]

\* the for..of loop of parseExtractionResponse over extractedData.results
RECURSIVE parseExtractionItems(_)
parseExtractionItems(items) ==
  IF items = <<>> THEN <<>>
  ELSE LET item == Head(items)
           amount == parseAmount(item.final_amount)
       IN IF ~item.success THEN parseExtractionItems(Tail(items))
          ELSE IF ~numTruthy(amount) \/ amount.value <= 0
          THEN parseExtractionItems(Tail(items))
          ELSE <<[amount |-> amount.value, type |-> item.transaction_type]>>
                 \o parseExtractionItems(Tail(items))

parseExtractionResponse_keepsFailed(responseData) ==
  IF ~responseData.success THEN extractionResult("null", <<>>, "null")
  ELSE IF ~responseData.hasResults
  THEN extractionResult("sentinel", <<>>, "Response parsing failed")
  ELSE LET kept == SelectSeq(responseData.results,
                     LAMBDA item : numTruthy(parseAmount(item.final_amount)))
       IN extractionResult("list",
            [i \in 1..Len(kept) |->
               [amount |-> parseAmount(kept[i].final_amount).value,
                type |-> kept[i].transaction_type]], "null")

\* parseExtractionResponse: null when the top-level success is falsy; a
\* response without results raises at the for..of, which the catch turns into
\* the sentinel
parseExtractionResponse(responseData) ==
  IF ~responseData.success THEN extractionResult("null", <<>>, "null")
  ELSE IF ~responseData.hasResults
  THEN extractionResult("sentinel", <<>>, "Response parsing failed")
  ELSE extractionResult("list", parseExtractionItems(responseData.results), "null")

\* --------------------------------------------- one call of a service client
\* retryAttempts and retryDelay of the two constructors
retryAttempts(service) == IF service = "classification" THEN 3 ELSE 3
retryDelay(service) == IF service = "classification" THEN 1000 ELSE 1000

serviceUrl(service) ==
  IF service = "classification" THEN classificationUrl ELSE extractionUrl

\* String.prototype.trim
RECURSIVE trimStart(_)
trimStart(str) ==
  IF str # <<>> /\ Head(str) = " " THEN trimStart(Tail(str)) ELSE str
RECURSIVE trimEnd(_)
trimEnd(str) ==
  IF str # <<>> /\ str[Len(str)] = " " THEN trimEnd(SubSeq(str, 1, Len(str) - 1)) ELSE str
trim(str) == trimEnd(trimStart(str))

\* the texts handed to a client: "", whitespace only, a text in spaces
ContentInputs == { <<>>, <<" ", " ">>, <<" ", "h", "i">> }

\* messages of the errors axios raises
ErrorMessages == {"Network Error", "Request failed with status code 503"}

\* the labels of classification responses: none, BILL, spam, LABEL_1
ResponseLabels ==
  { <<>>, <<"B", "I", "L", "L">>, <<"s", "p", "a", "m">>, <<"L", "A", "B", "E", "L", "_", "1">> }

OptionalNumbers == {Absent, Num(0), Num(92), Num(150)}

classificationResponse(shape, len, first, prediction, label, confidence, score, bool, num) ==
  [shape |-> shape, len |-> len, first |-> first, prediction |-> prediction,
   label |-> label, confidence |-> confidence, score |-> score,
   bool |-> bool, num |-> num]

NoElement == [label |-> <<>>, score |-> Absent]

\* response.data of the classification service: an array (empty, or with a
\* first element), an object, a boolean, a number, null, a string
ClassificationResponses ==
  { classificationResponse("array", 0, NoElement, <<>>, <<>>, Absent, Absent, FALSE, 0) }
  \cup { classificationResponse("array", 1, [label |-> l, score |-> n],
                                 <<>>, <<>>, Absent, Absent, FALSE, 0) :
           l \in ResponseLabels, n \in OptionalNumbers }
  \cup { classificationResponse("object", 0, NoElement, pr, l, c, n, FALSE, 0) :
           pr \in ResponseLabels, l \in ResponseLabels,
           c \in OptionalNumbers, n \in OptionalNumbers }
  \cup { classificationResponse("boolean", 0, NoElement, <<>>, <<>>, Absent, Absent, b, 0) :
           b \in BOOLEAN }
  \cup { classificationResponse("number", 0, NoElement, <<>>, <<>>, Absent, Absent, FALSE, v) :
           v \in {0 - 92, 0, 50, 92, 150} }
  \cup { classificationResponse(sh, 0, NoElement, <<>>, <<>>, Absent, Absent, FALSE, 0) :
           sh \in {"null", "string"} }

\* final_amount of a candidate: missing, 0, 5, 0.00, $1,250.50, -5, abc, 12a
AmountStrings ==
  { <<>>, <<"0">>, <<"5">>, <<"0", ".", "0", "0">>, <<"$", "1", ",", "2", "5", "0", ".", "5", "0">>, <<"-", "5">>, <<"a", "b", "c">>, <<"1", "2", "a">> }

ExtractionItems ==
  { [success |-> ok, final_amount |-> a, transaction_type |-> "purchase"] :
      ok \in BOOLEAN, a \in AmountStrings }

RECURSIVE SeqsUpTo(_, _)
SeqsUpTo(S, n) ==
  IF n = 0 THEN { <<>> }
  ELSE LET shorter == SeqsUpTo(S, n - 1)
       IN shorter \cup { Append(q, x) : q \in shorter, x \in S }

\* response.data of the extraction service
ExtractionResponses ==
  { [success |-> ok, hasResults |-> TRUE, results |-> items] :
      ok \in BOOLEAN, items \in SeqsUpTo(ExtractionItems, MaxCand) }
  \cup { [success |-> TRUE, hasResults |-> FALSE, results |-> <<>>] }

\* a call of classifyEmail or extractTransaction with one of the texts
InitClient ==
  /\ dbUser = [u \in Users |-> [NoUser EXCEPT !.id = u]]
  /\ emailStore = <<>>
  /\ now = 1
  /\ sPc = [r \in Slots |-> "idle"]
  /\ sUser = [r \in Slots |-> NoUser]
  /\ sEmails = [r \in Slots |-> <<>>]
  /\ sIdx = [r \in Slots |-> 1]
  /\ sSaved = [r \in Slots |-> 0]
  /\ sListed = [r \in Slots |-> <<>>]
  /\ classificationUrl \in BOOLEAN
  /\ extractionUrl \in BOOLEAN
  /\ txStore = <<>>
  /\ txNextId = 1
  /\ txResp = "none"
  /\ txReq = NoRequest
  /\ NoUtil
  /\ pPc = [p \in Procs |-> "idle"]
  /\ pUserId = [p \in Procs |-> 0]
  /\ pEmails = [p \in Procs |-> <<>>]
  /\ pIdx = [p \in Procs |-> 1]
  /\ pClass = [p \in Procs |-> NoClass]
  /\ pExtraction = [p \in Procs |-> NoExtraction]
  /\ pTx = [p \in Procs |-> <<>>]
  /\ cService \in {"classification", "extraction"}
  /\ cInput \in ContentInputs
  /\ cPc = "called"
  /\ cAttempt = 0
  /\ cCalls = 0
  /\ cWaits = <<>>
  /\ cErrors = <<>>
  /\ cResponse = NoResponse
  /\ cResult = NoResult

\* if (!emailContent || emailContent.trim().length === 0) of classifyEmail,
\* if (!emailContent) of extractTransaction
isEmptyContent(service, emailContent) ==
  IF service = "classification"
  THEN emailContent = <<>> \/ Len(trim(emailContent)) = 0
  ELSE emailContent = <<>>

\* the result returned for an empty content
emptyContentResult(service) ==
  IF service = "classification"
  THEN classificationResult(FALSE, 0, "Empty content")
  ELSE extractionResult("sentinel", <<>>, "Empty content")

lastAttemptResult_firstError(service, errors) ==
  IF service = "classification"
  THEN classificationResult(FALSE, 0, errors[1])
  ELSE extractionResult("sentinel", <<>>, errors[1])

\* the result returned by the catch of the last attempt: error.message of
\* that attempt
lastAttemptResult(service, errors) ==
  IF service = "classification"
  THEN classificationResult(FALSE, 0, errors[Len(errors)])
  ELSE extractionResult("sentinel", <<>>, errors[Len(errors)])

retryWait_constant(service, attempt) == retryDelay(service)

\* setTimeout(resolve, this.retryDelay * attempt)
retryWait(service, attempt) == retryDelay(service) * attempt

\* the checks before the loop: a missing URL raises, an empty content returns
CallEnter ==
  /\ cPc = "called"
  /\ IF ~serviceUrl(cService)
     THEN cPc' = "raised" /\ UNCHANGED <<cAttempt, cResult>>
     ELSE IF isEmptyContent(cService, cInput)
     THEN /\ cPc' = "returned"
          /\ cResult' = emptyContentResult(cService)
          /\ UNCHANGED cAttempt
     ELSE /\ cPc' = "attempt"
          /\ cAttempt' = 1
          /\ UNCHANGED cResult
  /\ UNCHANGED <<syncVars, cfgVars, utilVars, txVars, procVars,
                 cService, cInput, cCalls, cWaits, cErrors, cResponse>>

\* axios.post resolves: the parsed response is returned
CallRespond ==
  /\ cPc = "attempt"
  /\ cCalls' = cCalls + 1
  /\ IF cService = "classification"
     THEN \E responseData \in ClassificationResponses :
            /\ cResponse' = responseData
            /\ cResult' = parseClassificationResponse(responseData)
     ELSE \E responseData \in ExtractionResponses :
            /\ cResponse' = responseData
            /\ cResult' = parseExtractionResponse(responseData)
  /\ cPc' = "returned"
  /\ UNCHANGED <<syncVars, cfgVars, utilVars, txVars, procVars,
                 cService, cInput, cAttempt, cWaits, cErrors>>

\* axios.post rejects: the catch returns the degraded result on the last
\* attempt and otherwise starts the wait before the next attempt
CallFail ==
  /\ cPc = "attempt"
  /\ cCalls' = cCalls + 1
  /\ \E message \in ErrorMessages :
       LET errors == Append(cErrors, message)
       IN /\ cErrors' = errors
          /\ IF cAttempt = retryAttempts(cService)
             THEN /\ cResult' = lastAttemptResult(cService, errors)
                  /\ cPc' = "returned"
                  /\ UNCHANGED cWaits
             ELSE /\ cWaits' = Append(cWaits, retryWait(cService, cAttempt))
                  /\ cPc' = "waiting"
                  /\ UNCHANGED cResult
  /\ UNCHANGED <<syncVars, cfgVars, utilVars, txVars, procVars,
                 cService, cInput, cAttempt, cResponse>>

\* the timer fires: attempt++ and the next pass of the loop
CallRetry ==
  /\ cPc = "waiting"
  /\ cAttempt' = cAttempt + 1
  /\ cPc' = "attempt"
  /\ UNCHANGED <<syncVars, cfgVars, utilVars, txVars, procVars,
                 cService, cInput, cCalls, cWaits, cErrors, cResponse, cResult>>

NextClient ==
  \/ CallEnter
  \/ CallRespond
  \/ CallFail
  \/ CallRetry

SpecClient == InitClient /\ [][NextClient]_vars

\* C14: a call issues at most 3 network calls and none after the first one
\* that succeeds; after failed attempt a < 3 it waits a x 1000 ms, and it
\* does not wait after the third
C14_RetryBudgetAndBackoff ==
  /\ cCalls <= 3
  /\ cCalls = Len(cErrors) + (IF cResponse # NoResponse THEN 1 ELSE 0)
  /\ cResponse # NoResponse => cPc = "returned"
  /\ Len(cWaits) = (IF Len(cErrors) = 3 THEN 2 ELSE Len(cErrors))
  /\ \A a \in 1..Len(cWaits) : cWaits[a] = a * 1000

\* a call whose first two attempts failed and whose third succeeded
C14_Witness ==
  /\ cPc = "returned" /\ cResponse # NoResponse
  /\ cCalls = 3 /\ cWaits = <<1000, 2000>>

C16_EmptyContentShortCircuit ==
  /\ (cService = "classification" /\ cInput \in {<<>>, <<" ", " ">>}
        /\ cPc \notin {"called", "raised"}) =>
       /\ cPc = "returned" /\ cCalls = 0
       /\ cResult = [isTransactional |-> FALSE, confidence |-> 0, error |-> "empty content"]
  /\ (cService = "extraction" /\ cInput = <<>> /\ cPc \notin {"called", "raised"}) =>
       /\ cPc = "returned" /\ cCalls = 0
       /\ cResult.kind = "sentinel"

\* the labels of the responses that contain a keyword: BILL (bill), LABEL_1 (1)
LabelsWithKeyword == { <<"B", "I", "L", "L">>, <<"L", "A", "B", "E", "L", "_", "1">> }

\* C17: the result of a classification response is the one of the first
\* shape that matches: (a) array with label and numeric score, (b) object with
\* prediction or label and its confidence, else its score, else 0.5, (c) the
\* boolean, (d) number v as (v > 0.5, |v|), otherwise {false, 0, "unknown
\* response format"}
C17_ResponseShapes ==
  (cService = "classification" /\ cResponse # NoResponse) =>
    LET d == cResponse
        r == cResult
    IN IF d.shape = "array" /\ d.len > 0 /\ d.first.label # <<>> /\ d.first.score.defined
       THEN /\ r.isTransactional = (d.first.label \in LabelsWithKeyword)
            /\ r.confidence = d.first.score.value /\ r.error = "null"
       ELSE IF d.shape = "object" /\ (d.prediction # <<>> \/ d.label # <<>>)
       THEN /\ r.isTransactional =
                 ((IF d.prediction # <<>> THEN d.prediction ELSE d.label) \in LabelsWithKeyword)
            /\ r.confidence = (IF d.confidence.defined THEN d.confidence.value
                               ELSE IF d.score.defined THEN d.score.value ELSE 50)
            /\ r.error = "null"
       ELSE IF d.shape = "boolean"
       THEN r.isTransactional = d.bool /\ r.error = "null"
       ELSE IF d.shape = "number"
       THEN /\ r.isTransactional = (d.num > 50)
            /\ r.confidence = (IF d.num < 0 THEN 0 - d.num ELSE d.num)
            /\ r.error = "null"
       ELSE r = [isTransactional |-> FALSE, confidence |-> 0,
                 error |-> "unknown response format"]

\* C18: the confidence of every result classifyEmail returns lies in [0, 1]
C18_ConfidenceInUnitInterval ==
  (cService = "classification" /\ cPc = "returned") =>
    (cResult.confidence >= 0 /\ cResult.confidence <= 100)

\* the amounts, in hundredths, parseAmount finds in the texts of final_amount
\* that hold a number greater than 0: 5, $1,250.50, -5 (its digits), 12a
PositiveAmounts ==
  { <<<<"5">>, 500>>, <<<<"$", "1", ",", "2", "5", "0", ".", "5", "0">>, 125050>>, <<<<"-", "5">>, 500>>, <<<<"1", "2", "a">>, 1200>> }

C20_ListOrSentinel ==
  (cService = "extraction" /\ cPc = "returned") =>
    \/ cResult.kind = "list"
    \/ (cResult.kind = "sentinel" /\ cResult.error # "null")

OwnerRuns == {1, 2}

\* one stored, unprocessed message per user; both services are configured
InitOwner ==
  /\ dbUser = [u \in Users |->
       [NoUser EXCEPT !.id = u, !.lastSyncDate = 1, !.totalEmails = 1]]
  /\ emailStore =
       LET ids == SetToSeq({ u * 10 + 1 : u \in Users })
       IN [i \in 1..Len(ids) |->
             newEmail(ids[i] \div 10, [id |-> ids[i], isTransactional |-> TRUE])]
  /\ now = 1
  /\ sPc = [r \in Slots |-> "idle"]
  /\ sUser = [r \in Slots |-> NoUser]
  /\ sEmails = [r \in Slots |-> <<>>]
  /\ sIdx = [r \in Slots |-> 1]
  /\ sSaved = [r \in Slots |-> 0]
  /\ sListed = [r \in Slots |-> <<>>]
  /\ classificationUrl = TRUE
  /\ extractionUrl = TRUE
  /\ txStore = <<>>
  /\ txNextId = 1
  /\ txResp = "none"
  /\ txReq = NoRequest
  /\ NoUtil
  /\ NoCall
  /\ pPc = [p \in Procs |-> "idle"]
  /\ pUserId = [p \in Procs |-> 0]
  /\ pEmails = [p \in Procs |-> <<>>]
  /\ pIdx = [p \in Procs |-> 1]
  /\ pClass = [p \in Procs |-> NoClass]
  /\ pExtraction = [p \in Procs |-> NoExtraction]
  /\ pTx = [p \in Procs |-> <<>>]

\* the runs of processEmails in which both services answer, and the
\* /transactions routes that create and edit, with one body each
NextOwner ==
  \/ \E p \in OwnerRuns : ProcRequest(p)
  \/ \E p \in OwnerRuns : ProcClassify(p)
  \/ \E p \in OwnerRuns : ProcExtractRecord(p)
  \/ \E p \in OwnerRuns : ProcNextEmail(p)
  \/ \E u \in Users : TxPostWith(u, {Num(1)}, {"purchase"})
  \/ \E u \in Users : TxPutWith(u, {Absent}, {"refund"})

SpecOwner == InitOwner /\ [][NextOwner]_vars

\* C24: a Transaction that references a source message has the userId of
\* that message
C24_TransactionOwnerIsMessageOwner ==
  \A i \in 1..Len(txStore) :
    (txStore[i].emailId # 0) =>
      /\ \E k \in 1..Len(emailStore) : emailStore[k].gmailId = txStore[i].emailId
      /\ \A k \in 1..Len(emailStore) :
           (emailStore[k].gmailId = txStore[i].emailId)
             => emailStore[k].userId = txStore[i].userId

\* both users have a Transaction from one of their own messages, and user 2
\* has edited theirs
C24_Witness ==
  /\ \E i \in 1..Len(txStore) : txStore[i].emailId # 0 /\ txStore[i].userId = 1
  /\ \E i \in 1..Len(txStore) :
       /\ txStore[i].emailId # 0 /\ txStore[i].userId = 2
       /\ txStore[i].transactionType = "refund"

\* the /transactions routes with one body for POST and the bodies of PUT that
\* change the type, the amount, both or nothing (specification SpecAccess)
NextAccess ==
  \/ \E u \in Users : TxPostWith(u, {Num(1)}, {"purchase"})
  \/ \E u \in Users : TxPutWith(u, {Absent, Num(MaxAmount)}, {"undefined", "refund"})
  \/ \E u \in Users : TxDelete(u)

SpecAccess == InitTx /\ [][NextAccess]_vars

\* the stored transactions with the id of the request
txTargets(store, req) == { i \in 1..Len(store) : store[i].id = req.id }

\* C23: a PUT or DELETE on /transactions/:id by a user who does not own the
\* transaction is answered with 403 and leaves the store as it was; a stored
\* transaction is changed only by a PUT of its owner on its id and removed
\* only by a DELETE of its owner on its id
C23_OnlyOwnerChangesOrDeletes ==
  [][ /\ (/\ txReq'.method \in {"PUT", "DELETE"}
          /\ \E i \in txTargets(txStore, txReq') :
               txStore[i].userId # txReq'.user)
        => (txResp' = "403" /\ txStore' = txStore)
      /\ \A i \in 1..Len(txStore) :
           LET t == txStore[i]
               after == { j \in 1..Len(txStore') : txStore'[j].id = t.id }
           IN /\ (after = {}) =>
                   (txReq' = [method |-> "DELETE", user |-> t.userId, id |-> t.id])
              /\ (\E j \in after : txStore'[j] # t) =>
                   (txReq' = [method |-> "PUT", user |-> t.userId, id |-> t.id])
    ]_vars

\* user 2 has asked to delete a transaction of user 1 and got 403
C23_Witness ==
  /\ txReq.method = "DELETE"
  /\ txResp = "403"
  /\ \E i \in txTargets(txStore, txReq) :
       txStore[i].userId = 1 /\ txReq.user = 2

\* C29: every PUT and DELETE on /transactions/:id is answered; a PUT on an
\* id that is not stored is answered with 404, a DELETE on such an id with
\* an error status
C29_EveryRequestAnswered ==
  (txReq.method \in {"PUT", "DELETE"}) =>
    /\ txResp \in {"200", "403", "404", "500"}
    /\ (txReq.method = "PUT" /\ txTargets(txStore, txReq) = {}) => txResp = "404"
    /\ (txReq.method = "DELETE" /\ txResp = "200") => txTargets(txStore, txReq) = {}

\* ====================================================================
\* The batch loops: ClassificationService.batchClassify,
\* ExtractionService.batchExtract and the detail fetch of
\* GmailService.fetchEmails (specification SpecBatch)
\* ====================================================================

\* the server with empty stores and nothing in progress
ServerAtRest ==
  /\ dbUser = [u \in Users |-> [NoUser EXCEPT !.id = u]]
  /\ emailStore = <<>>
  /\ now = 1
  /\ sPc = [r \in Slots |-> "idle"]
  /\ sUser = [r \in Slots |-> NoUser]
  /\ sEmails = [r \in Slots |-> <<>>]
  /\ sIdx = [r \in Slots |-> 1]
  /\ sSaved = [r \in Slots |-> 0]
  /\ sListed = [r \in Slots |-> <<>>]
  /\ classificationUrl = TRUE
  /\ extractionUrl = TRUE
  /\ txStore = <<>>
  /\ txNextId = 1
  /\ txResp = "none"
  /\ txReq = NoRequest
  /\ NoCall
  /\ pPc = [p \in Procs |-> "idle"]
  /\ pUserId = [p \in Procs |-> 0]
  /\ pEmails = [p \in Procs |-> <<>>]
  /\ pIdx = [p \in Procs |-> 1]
  /\ pClass = [p \in Procs |-> NoClass]
  /\ pExtraction = [p \in Procs |-> NoExtraction]
  /\ pTx = [p \in Procs |-> <<>>]

BatchKinds == {"classify", "extract", "fetch"}

\* const batchSize of the three loops
batchSize(kind) ==
  CASE kind = "classify" -> 5
    [] kind = "extract" -> 3
    [] kind = "fetch" -> 10

Min(a, b) == IF a < b THEN a ELSE b

\* batch = items.slice(i, i + batchSize): the 1-based positions of the group
\* that starts at the 0-based index i
batchSlice(kind, n, i) == (i + 1)..Min(i + batchSize(kind), n)

Settled == {"fulfilled", "rejected"}

\* a variant whose forEach pushes an ordinary value for a rejected operation
batchEntry_valueOnly(k, status) == [item |-> k, failed |-> FALSE]

\* the entry the forEach over batchResults pushes for the item at position k:
\* the value of a fulfilled operation, the failure entry of a rejected one.
\* item names the operation the entry came from.
batchEntry(k, status) == [item |-> k, failed |-> (status = "rejected")]

\* the detail fetch keeps a message when fetchEmailsKeep holds of its result
fetchEntry(k, status) ==
  [status |-> status, item |-> k,
   isTransactional |-> parseEmailBodyIsTransactional(classificationUrl)]

RECURSIVE batchPush(_, _, _, _)
\* the forEach over batchResults, positions from..to in order
batchPush(kind, status, from, to) ==
  IF from > to THEN <<>>
  ELSE LET rest == batchPush(kind, status, from + 1, to)
       IN IF kind = "fetch"
          THEN IF fetchEmailsKeep(fetchEntry(from, status[from]))
               THEN <<[item |-> from, failed |-> FALSE]>> \o rest
               ELSE rest
          ELSE <<batchEntry(from, status[from])>> \o rest

InitBatch ==
  /\ ServerAtRest
  /\ NoBody
  /\ NoRoute
  /\ bKind \in BatchKinds
  /\ bN \in 0..MaxItems
  /\ bPc = "loop"
  /\ bI = 0
  /\ bStatus = [k \in 1..bN |-> "pending"]
  /\ bPauses = 0
  /\ bGroups = <<>>
  /\ bResults = <<>>

\* the loop test holds: the group is sliced and batch.map starts one
\* operation per item of it
BatchStartGroup ==
  /\ bPc = "loop"
  /\ bI < bN
  /\ LET batch == batchSlice(bKind, bN, bI)
     IN /\ bStatus' = [k \in 1..bN |->
                         IF k \in batch THEN "running" ELSE bStatus[k]]
        /\ bGroups' = Append(bGroups, Cardinality(batch))
  /\ bPc' = "awaiting"
  /\ UNCHANGED <<bKind, bN, bI, bPauses, bResults>>
  /\ UNCHANGED <<syncVars, cfgVars, callVars, txVars, procVars, bodyVars, routeVars>>

\* one operation of the group fulfils or rejects
BatchSettle ==
  /\ bPc = "awaiting"
  /\ \E k \in 1..bN : \E outcome \in Settled :
       /\ bStatus[k] = "running"
       /\ bStatus' = [bStatus EXCEPT ![k] = outcome]
  /\ UNCHANGED <<bKind, bN, bPc, bI, bPauses, bGroups, bResults>>
  /\ UNCHANGED <<syncVars, cfgVars, callVars, txVars, procVars, bodyVars, routeVars>>

\* a variant that pauses after every group, the last one included
BatchCollect_pauseAlways ==
  /\ bPc = "awaiting"
  /\ \A k \in batchSlice(bKind, bN, bI) : bStatus[k] \in Settled
  /\ bResults' = bResults \o batchPush(bKind, bStatus, bI + 1,
                                        Min(bI + batchSize(bKind), bN))
  /\ bPauses' = bPauses + 1 /\ bPc' = "pausing" /\ UNCHANGED bI
  /\ UNCHANGED <<bKind, bN, bStatus, bGroups>>
  /\ UNCHANGED <<syncVars, cfgVars, callVars, txVars, procVars, bodyVars, routeVars>>

\* Promise.allSettled resolves once every operation of the group has
\* settled; the results are pushed in the order of the group, and the pause
\* is started when items remain after the group
BatchCollect ==
  /\ bPc = "awaiting"
  /\ \A k \in batchSlice(bKind, bN, bI) : bStatus[k] \in Settled
  /\ bResults' = bResults \o batchPush(bKind, bStatus, bI + 1,
                                        Min(bI + batchSize(bKind), bN))
  /\ IF bI + batchSize(bKind) < bN
     THEN bPauses' = bPauses + 1 /\ bPc' = "pausing" /\ UNCHANGED bI
     ELSE bI' = bI + batchSize(bKind) /\ bPc' = "loop" /\ UNCHANGED bPauses
  /\ UNCHANGED <<bKind, bN, bStatus, bGroups>>
  /\ UNCHANGED <<syncVars, cfgVars, callVars, txVars, procVars, bodyVars, routeVars>>

\* the pause ends: i += batchSize
BatchResume ==
  /\ bPc = "pausing"
  /\ bI' = bI + batchSize(bKind)
  /\ bPc' = "loop"
  /\ UNCHANGED <<bKind, bN, bStatus, bPauses, bGroups, bResults>>
  /\ UNCHANGED <<syncVars, cfgVars, callVars, txVars, procVars, bodyVars, routeVars>>

\* the loop test fails: return results
BatchReturn ==
  /\ bPc = "loop"
  /\ bI >= bN
  /\ bPc' = "returned"
  /\ UNCHANGED <<bKind, bN, bI, bStatus, bPauses, bGroups, bResults>>
  /\ UNCHANGED <<syncVars, cfgVars, callVars, txVars, procVars, bodyVars, routeVars>>

NextBatch ==
  \/ BatchStartGroup
  \/ BatchSettle
  \/ BatchCollect
  \/ BatchResume
  \/ BatchReturn

SpecBatch == InitBatch /\ [][NextBatch]_vars

\* the group an item belongs to, counted from 1
groupOf(kind, k) == ((k - 1) \div batchSize(kind)) + 1

\* number of groups n items are split into
groupCount(kind, n) == (n + batchSize(kind) - 1) \div batchSize(kind)

\* C21: the three loops split n items into consecutive groups of the batch
\* size, the last one possibly smaller; no operation of a group has started
\* while an operation of an earlier group is unsettled; one pause is made
\* between two consecutive groups and none after the last group
C21_GroupsInOrderWithPauses ==
  (bKind \in BatchKinds) =>
    /\ \A g \in 1..Len(bGroups) :
         bGroups[g] = Min(batchSize(bKind), bN - (g - 1) * batchSize(bKind))
    /\ Len(bGroups) <= groupCount(bKind, bN)
    /\ (bPc = "returned") => Len(bGroups) = groupCount(bKind, bN)
    /\ \A j, k \in 1..bN :
         (groupOf(bKind, j) < groupOf(bKind, k) /\ bStatus[k] # "pending")
           => bStatus[j] \in Settled
    /\ (bPc = "pausing") =>
         /\ \A k \in 1..bN : bStatus[k] # "running"
         /\ Len(bGroups) < groupCount(bKind, bN)
         /\ bPauses = Len(bGroups)
    /\ (bPc = "awaiting") => bPauses = Len(bGroups) - 1
    /\ (bPc = "loop") => bPauses = (IF bI < bN THEN Len(bGroups)
                                   ELSE IF bN = 0 THEN 0 ELSE Len(bGroups) - 1)
    /\ (bPc = "returned") =>
         bPauses = (IF bN = 0 THEN 0 ELSE groupCount(bKind, bN) - 1)

\* seven items in groups of three: 3, 3, 1 with two pauses, an item of the
\* first group having failed
C21_Witness ==
  /\ bKind = "extract" /\ bN = 7 /\ bPc = "returned"
  /\ bGroups = <<3, 3, 1>>
  /\ bPauses = 2
  /\ bStatus[2] = "rejected"

\* C22: batchClassify and batchExtract return one result per item, the
\* result at position i being that of item i; a failed item has a failure
\* entry at its own position and the other items keep their results
C22_OneResultPerItemInOrder ==
  (bKind \in {"classify", "extract"}) =>
    /\ Len(bResults) <= bN
    /\ (bPc = "returned") => Len(bResults) = bN
    /\ \A i \in 1..Len(bResults) :
         /\ bResults[i].item = i
         /\ bResults[i].failed = (bStatus[i] = "rejected")

\* six items of batchClassify, the second and the sixth failed
C22_Witness ==
  /\ bKind = "classify" /\ bN = 6 /\ bPc = "returned"
  /\ bStatus[2] = "rejected" /\ bStatus[6] = "rejected"
  /\ bStatus[1] = "fulfilled" /\ bStatus[3] = "fulfilled"
  /\ Len(bResults) = 6
  /\ bResults[2].failed /\ ~bResults[3].failed

\* ====================================================================
\* utils/emailParser.js: parseEmailBody over payload trees (specification
\* SpecBody). A text is a sequence of one-character strings, the data of a
\* body a sequence of base64url quanta of four characters each.
\* ====================================================================

NoData == [kind |-> "none", quanta |-> <<>>]
\* a body.data that is not a string: base64String.replace is not a function
NumberData == [kind |-> "number", quanta |-> <<>>]
StringData(quanta) == [kind |-> "string", quanta |-> quanta]

\* part.body && part.body.data: a missing value and "" are falsy
hasData(data) ==
  \/ data.kind = "number"
  \/ (data.kind = "string" /\ data.quanta # <<>>)

\* base64String.replace(/-/g, "+").replace(/_/g, "/") on one quantum
normalized(quantum) ==
  [i \in 1..Len(quantum) |->
     IF quantum[i] = "-" THEN "+" ELSE IF quantum[i] = "_" THEN "/" ELSE quantum[i]]

\* Buffer.from(quantum, "base64").toString("utf-8") for the quanta in use;
\* the url-safe spelling is not in the standard alphabet
bufferFrom(quantum) ==
  CASE quantum = <<"I", "G", "h", "p">> -> <<" ", "h", "i">>
    [] quantum = <<"e", "W", "8", "=">> -> <<"y", "o">>
    [] quantum = <<"a", "G", "k", "=">> -> <<"h", "i">>
    [] quantum = <<"P", "G", "I", "+">> -> <<"<", "b", ">">>
    [] OTHER -> <<>>

RECURSIVE bufferFromAll(_)
bufferFromAll(quanta) ==
  IF quanta = <<>> THEN <<>>
  ELSE bufferFrom(normalized(Head(quanta))) \o bufferFromAll(Tail(quanta))

\* a variant of decodeBase64 without the try/catch
decodeBase64_noCatch(data) ==
  IF data.kind = "string"
  THEN [raised |-> FALSE, text |-> bufferFromAll(data.quanta)]
  ELSE [raised |-> TRUE, text |-> <<>>]

\* decodeBase64: the decoded text; an exception is caught and "" returned
decodeBase64(data) ==
  IF data.kind = "string"
  THEN [raised |-> FALSE, text |-> bufferFromAll(data.quanta)]
  ELSE [raised |-> FALSE, text |-> <<>>]

RECURSIVE convert(_)
\* convert of html-to-text on the texts in use: the markup between "<" and
\* ">" is dropped
convert(html) ==
  IF html = <<>> THEN <<>>
  ELSE IF Head(html) = "<"
       THEN LET closing == { i \in 1..Len(html) : html[i] = ">" }
            IN IF closing = {} THEN <<>>
               ELSE LET c == CHOOSE i \in closing : \A j \in closing : i <= j
                    IN convert(SubSeq(html, c + 1, Len(html)))
       ELSE <<Head(html)>> \o convert(Tail(html))

NoBodies == [raised |-> FALSE, htmlBody |-> <<>>, plainBody |-> <<>>]

\* a variant that puts what was collected so far behind the new text
appendBodies_behind(acc, more) ==
  [raised |-> acc.raised \/ more.raised,
   htmlBody |-> more.htmlBody \o acc.htmlBody,
   plainBody |-> more.plainBody \o acc.plainBody]

\* plainBody += ...; htmlBody += ...
appendBodies(acc, more) ==
  [raised |-> acc.raised \/ more.raised,
   htmlBody |-> acc.htmlBody \o more.htmlBody,
   plainBody |-> acc.plainBody \o more.plainBody]

RECURSIVE extractFromPartsFrom(_, _)
\* extractFromParts, the for loop from part k on; acc holds htmlBody and
\* plainBody collected so far
extractFromPartsFrom(parts, acc) ==
  IF parts = <<>> \/ acc.raised THEN acc
  ELSE LET part == Head(parts)
           decoded == decodeBase64(part.data)
           own ==
             IF part.mimeType = "text/plain" /\ hasData(part.data)
             THEN [raised |-> decoded.raised, htmlBody |-> <<>>, plainBody |-> decoded.text]
             ELSE IF part.mimeType = "text/html" /\ hasData(part.data)
             THEN [raised |-> decoded.raised, htmlBody |-> decoded.text, plainBody |-> <<>>]
             ELSE IF part.parts # <<>>
             THEN extractFromPartsFrom(part.parts, NoBodies)
             ELSE NoBodies
       IN extractFromPartsFrom(Tail(parts), appendBodies(acc, own))

extractFromParts(parts) == extractFromPartsFrom(parts, NoBodies)

\* the payload that is undefined
UndefinedPayload == [mimeType |-> "undefined", data |-> NoData, parts |-> <<>>]

\* parseEmailBody. What the try block assigned before an exception stays
\* assigned. extractBodyRecursive is defined nowhere: the fallback raises a
\* ReferenceError, which the catch logs.
parseEmailBody(payload, urlSet) ==
  LET caught == [raised |-> TRUE, body |-> <<>>, bodyPlain |-> <<>>]
      decodedBody == decodeBase64(payload.data)
      extracted == extractFromParts(payload.parts)
      traversed ==
        IF payload = UndefinedPayload THEN caught
        ELSE IF hasData(payload.data)
        THEN IF decodedBody.raised THEN caught
             ELSE IF payload.mimeType = "text/plain"
                  THEN [raised |-> FALSE, body |-> decodedBody.text,
                        bodyPlain |-> decodedBody.text]
                  ELSE [raised |-> FALSE, body |-> decodedBody.text,
                        bodyPlain |-> convert(decodedBody.text)]
        ELSE IF payload.parts # <<>>
        THEN IF extracted.raised THEN caught
             ELSE [raised |-> FALSE,
                   body |-> IF extracted.htmlBody # <<>> THEN extracted.htmlBody
                            ELSE extracted.plainBody,
                   bodyPlain |-> IF extracted.plainBody # <<>> THEN extracted.plainBody
                                 ELSE convert(extracted.htmlBody)]
        ELSE [raised |-> FALSE, body |-> <<>>, bodyPlain |-> <<>>]
      fallback ==
        IF ~traversed.raised /\ traversed.body = <<>> /\ traversed.bodyPlain = <<>>
        THEN caught
        ELSE traversed
  IN [kind |-> "result",
      body |-> trim(fallback.body),
      bodyPlain |-> trim(fallback.bodyPlain),
      isTransactional |-> IF fallback.raised THEN FALSE
                          ELSE parseEmailBodyIsTransactional(urlSet)]

Leaf(mimeType, data) == [mimeType |-> mimeType, data |-> data, parts |-> <<>>]
Multipart(parts) == [mimeType |-> "multipart/mixed", data |-> NoData, parts |-> parts]

\* leaves: " hi" and "yo" as text/plain, "<b>hi" as text/html (its first
\* quantum in the url-safe spelling), an image with data, a text/plain leaf
\* whose data is not a string, an attachment without data
Leaves ==
  { Leaf("text/plain", StringData(<< <<"I", "G", "h", "p">> >>)),
    Leaf("text/plain", StringData(<< <<"e", "W", "8", "=">> >>)),
    Leaf("text/html", StringData(<< <<"P", "G", "I", "-">>, <<"a", "G", "k", "=">> >>)),
    Leaf("image/png", StringData(<< <<"a", "G", "k", "=">> >>)),
    Leaf("text/plain", NumberData),
    Leaf("image/png", NoData) }

\* a part is a leaf or a multipart of one or two leaves
Parts ==
  Leaves
    \cup { Multipart(<<a>>) : a \in Leaves }
    \cup { Multipart(<<a, b>>) : a \in Leaves, b \in Leaves }

\* the payloads: undefined, a simple message, a multipart of 1..MaxParts parts
Payloads ==
  {UndefinedPayload}
    \cup Leaves
    \cup { Multipart(parts) : parts \in SeqsUpTo(Parts, MaxParts) \ {<<>>} }

InitBody ==
  /\ ServerAtRest
  /\ NoBatch
  /\ NoRoute
  /\ ebPayload \in Payloads
  /\ ebPc = "called"
  /\ ebResult = [kind |-> "none"]

\* one call of parseEmailBody
ParseEmailBody ==
  /\ ebPc = "called"
  /\ ebResult' = parseEmailBody(ebPayload, classificationUrl)
  /\ ebPc' = "returned"
  /\ UNCHANGED ebPayload
  /\ UNCHANGED <<syncVars, cfgVars, callVars, txVars, procVars, batchVars, routeVars>>

NextBody == ParseEmailBody

SpecBody == InitBody /\ [][NextBody]_vars

RECURSIVE leavesOf(_)
\* the leaves of a payload tree in document order
leavesOf(node) ==
  IF node.parts = <<>> THEN <<node>>
  ELSE LET RECURSIVE of(_)
           of(parts) == IF parts = <<>> THEN <<>>
                        ELSE leavesOf(Head(parts)) \o of(Tail(parts))
       IN of(node.parts)

RECURSIVE textOf(_, _)
\* the decoded texts of the leaves of one MIME type that carry data, joined
textOf(leaves, mimeType) ==
  IF leaves = <<>> THEN <<>>
  ELSE (IF Head(leaves).mimeType = mimeType /\ Head(leaves).data.kind = "string"
        THEN bufferFromAll(Head(leaves).data.quanta) ELSE <<>>)
         \o textOf(Tail(leaves), mimeType)

isMultipart(payload) == payload.parts # <<>>

hasPlainLeafWithData(payload) ==
  \E i \in 1..Len(leavesOf(payload)) :
    /\ leavesOf(payload)[i].mimeType = "text/plain"
    /\ hasData(leavesOf(payload)[i].data)

\* C25 as stated: for a multipart payload with a text/plain leaf that has
\* data, bodyPlain is the concatenation in document order of the decoded
\* text/plain leaves
C25_PlainIsConcatenation ==
  (ebPc = "returned" /\ isMultipart(ebPayload) /\ hasPlainLeafWithData(ebPayload)) =>
    ebResult.bodyPlain = textOf(leavesOf(ebPayload), "text/plain")

\* C25, amended: bodyPlain is that concatenation with the white space at its
\* two ends removed; the text derived from the text/html leaves is used only
\* when the text/plain leaves decode to the empty string
C25_PlainIsTrimmedConcatenation ==
  (ebPc = "returned" /\ isMultipart(ebPayload) /\ hasPlainLeafWithData(ebPayload)) =>
    LET plain == textOf(leavesOf(ebPayload), "text/plain")
        html == textOf(leavesOf(ebPayload), "text/html")
    IN ebResult.bodyPlain = IF plain # <<>> THEN trim(plain) ELSE trim(convert(html))

\* "yo" at the top, " hi" nested next to an html leaf: "yo hi"
C25_Witness ==
  /\ ebPc = "returned"
  /\ isMultipart(ebPayload)
  /\ Len(ebPayload.parts) = 2
  /\ ebPayload.parts[1].mimeType = "text/plain"
  /\ isMultipart(ebPayload.parts[2])
  /\ \E i \in 1..Len(ebPayload.parts[2].parts) :
       ebPayload.parts[2].parts[i].mimeType = "text/html"
  /\ ebResult.bodyPlain = <<"y", "o", " ", "h", "i">>

RECURSIVE withoutUndecodable(_)
\* the payload tree with the data of every undecodable leaf taken away
withoutUndecodable(node) ==
  LET RECURSIVE each(_)
      each(parts) == IF parts = <<>> THEN <<>>
                     ELSE <<withoutUndecodable(Head(parts))>> \o each(Tail(parts))
  IN [mimeType |-> node.mimeType,
      data |-> IF node.data.kind = "number" THEN NoData ELSE node.data,
      parts |-> each(node.parts)]

hasUndecodableLeaf(payload) ==
  \E i \in 1..Len(leavesOf(payload)) : leavesOf(payload)[i].data.kind = "number"

\* C26: parseEmailBody returns an object for every payload tree; a leaf that
\* cannot be decoded contributes the empty string, that is the result is the
\* one of the tree without the data of that leaf, and the text of the other
\* text/plain leaves is in it
C26_NeverRaisesUndecodableIsEmpty ==
  (ebPc = "returned") =>
    /\ ebResult.kind = "result"
    /\ ebResult = parseEmailBody(withoutUndecodable(ebPayload), classificationUrl)
    /\ (isMultipart(ebPayload) /\ hasUndecodableLeaf(ebPayload)) =>
         ebResult.bodyPlain =
           (LET plain == textOf(leavesOf(ebPayload), "text/plain")
            IN IF plain # <<>> THEN trim(plain)
               ELSE trim(convert(textOf(leavesOf(ebPayload), "text/html"))))

\* an undecodable text/plain leaf in front of the leaf "yo": "yo" is returned
C26_Witness ==
  /\ ebPc = "returned"
  /\ isMultipart(ebPayload)
  /\ Len(ebPayload.parts) = 2
  /\ ebPayload.parts[1] = Leaf("text/plain", NumberData)
  /\ ebPayload.parts[2].mimeType = "text/plain"
  /\ ebResult.kind = "result"
  /\ ebResult.bodyPlain = <<"y", "o">>

\* some leaf of the payload has data that decodes to a text
hasDecodableLeaf(payload) ==
  \E i \in 1..Len(leavesOf(payload)) :
    /\ leavesOf(payload)[i].data.kind = "string"
    /\ bufferFromAll(leavesOf(payload)[i].data.quanta) # <<>>

\* the traversal of parseEmailBody finds neither text/plain nor text/html
\* content
traversalFindsNothing(payload) ==
  /\ payload # UndefinedPayload
  /\ ~hasData(payload.data)
  /\ extractFromParts(payload.parts).htmlBody = <<>>
  /\ extractFromParts(payload.parts).plainBody = <<>>

\* C27: when the traversal finds neither text/plain nor text/html content,
\* the result holds the decoded content of the decodable leaves: it is not
\* empty when some leaf has decodable data
C27_FallbackReturnsDecodableLeaves ==
  (ebPc = "returned" /\ traversalFindsNothing(ebPayload) /\ hasDecodableLeaf(ebPayload)) =>
    (ebResult.body # <<>> \/ ebResult.bodyPlain # <<>>)

\* ====================================================================
\* routes/emails.js: the route table of the emails router and the dispatch
\* of an authenticated request (specification SpecRoute). A path is the
\* sequence of its segments below the mount point.
\* ====================================================================

\* the routes in the order of their declaration
Routes ==
  << [method |-> "POST", path |-> <<"sync">>, handler |-> "POST /sync"],
     [method |-> "GET", path |-> <<"sync", "status">>, handler |-> "GET /sync/status"],
     [method |-> "GET", path |-> <<>>, handler |-> "GET /"],
     [method |-> "GET", path |-> <<":emailId">>, handler |-> "GET /:emailId"],
     [method |-> "POST", path |-> <<"process">>, handler |-> "POST /process"],
     [method |-> "GET", path |-> <<"transactions">>, handler |-> "GET /transactions"],
     [method |-> "GET", path |-> <<"transactions", "stats">>,
      handler |-> "GET /transactions/stats"] >>

\* the segments of a route path that are parameters
Parameters == {":emailId"}

\* a route matches a request of its method whose path has the segments of
\* the route path, a parameter standing for any one segment
routeMatches(route, method, path) ==
  /\ route.method = method
  /\ Len(route.path) = Len(path)
  /\ \A i \in 1..Len(path) :
       route.path[i] \in Parameters \/ route.path[i] = path[i]

\* the router runs the first matching route; none of the handlers calls
\* next(), so later routes are not tried. Without a match the request
\* leaves the router.
dispatch(method, path) ==
  LET matching == { i \in 1..Len(Routes) : routeMatches(Routes[i], method, path) }
  IN IF matching = {} THEN "not found"
     ELSE Routes[CHOOSE i \in matching : \A j \in matching : i <= j].handler

Segments == {"sync", "status", "process", "transactions", "stats", "64f0c2"}

InitRoute ==
  /\ ServerAtRest
  /\ NoBatch
  /\ NoBody
  /\ rqMethod \in {"GET", "POST"}
  /\ rqPath \in SeqsUpTo(Segments, MaxSegs)
  /\ rqHandler = "none"

\* the router handles the request
RouteDispatch ==
  /\ rqHandler = "none"
  /\ rqHandler' = dispatch(rqMethod, rqPath)
  /\ UNCHANGED <<rqMethod, rqPath>>
  /\ UNCHANGED <<syncVars, cfgVars, callVars, txVars, procVars, batchVars, bodyVars>>

NextRoute == RouteDispatch

SpecRoute == InitRoute /\ [][NextRoute]_vars

\* C30: GET /transactions and GET /transactions/stats reach their own
\* handlers and are not handled by the route GET /:emailId
C30_TransactionRoutesReachTheirHandlers ==
  (rqHandler # "none" /\ rqMethod = "GET") =>
    /\ (rqPath = <<"transactions">>) => rqHandler = "GET /transactions"
    /\ (rqPath = <<"transactions", "stats">>) => rqHandler = "GET /transactions/stats"

====
